---- MODULE Spec2Model ----
(***************************************************************************)
(* The cached file data plane of telegram-fuse (src/vfs/file.rs): the      *)
(* bounded table DiskCache.files, the per-entry state FileCache.state, the *)
(* background download and upload tasks, and the callers' operations       *)
(* open / read / write / truncate / flush / delete, each cut at its        *)
(* suspension points (every `.await` that releases the entry's mutex).     *)
(***************************************************************************)
EXTENDS Integers, Sequences, FiniteSets, TLC

-----------------------------------------------------------------------------
(* Bounds of the model *)

\* largest file size, offset and truncate argument, in bytes
MaxSize == 2
\* FileCache objects ever constructed
MaxEnt == 3
\* Instant::now() readings taken for lock_mtime
MaxEpoch == 3
\* operations the callers begin in one behaviour
MaxOps == 3
\* remote calls that fail in one behaviour
MaxFaults == 1
\* concurrent callers (FUSE request tasks)
NumCallers == 2
\* largest chunk the remote's download stream yields
MaxChunk == 2

\* const CACHE_SIZE: usize = 1024
CACHE_SIZE == 1024
\* rids, and the capacity of the table where its replacement is exercised
MaxRids == 3
TableCap == 2

Rids == {1}
Ents == 1..MaxEnt
Epochs == 1..MaxEpoch
Callers == 1..NumCallers
\* the byte the callers write
WriteByte == 9
\* a read size no file reaches: read(0, unbounded)
Unbounded == MaxSize + 1

-----------------------------------------------------------------------------
(* Byte sequences: the backing file *)

Min(a, b) == IF a < b THEN a ELSE b
Max(a, b) == IF a > b THEN a ELSE b

\* File::set_len: shrink drops the tail, grow fills with zeros
SetLen(f, n) == [i \in 1..n |-> IF i <= Len(f) THEN f[i] ELSE 0]

\* seek(SeekFrom::Start(offset)) then write_all(data): a hole reads as zeros
WriteAll(f, offset, data) ==
    [i \in 1..Max(Len(f), offset + Len(data)) |->
        IF i > offset /\ i <= offset + Len(data) THEN data[i - offset]
        ELSE IF i <= Len(f) THEN f[i] ELSE 0]

\* seek(SeekFrom::Start(offset)) then read_exact of end - offset bytes
ReadExact(f, offset, end) == SubSeq(f, offset + 1, end)

-----------------------------------------------------------------------------
(* LruCache<i32, Arc<FileCache>>: a sequence of (k, v), least recent first *)

Index(fs, rid) ==
    IF \E i \in 1..Len(fs) : fs[i].k = rid
    THEN CHOOSE i \in 1..Len(fs) : fs[i].k = rid
    ELSE 0

\* the entry the table maps rid to, 0 for None
Lookup(fs, rid) == IF Index(fs, rid) = 0 THEN 0 ELSE fs[Index(fs, rid)].v

Without(fs, rid) == SelectSeq(fs, LAMBDA p : p.k # rid)

\* LruCache::get_mut: a hit becomes the most recently used
GetMut(fs, rid) ==
    IF Index(fs, rid) = 0 THEN fs
    ELSE Append(Without(fs, rid), fs[Index(fs, rid)])

\* a put that makes room by dropping the most recently used
PutWithinDroppingNewest(fs, rid, e, cap) ==
    LET rest == Without(fs, rid)
    IN  IF Len(rest) + 1 > cap
        THEN Append(SubSeq(rest, 1, Len(rest) - 1), [k |-> rid, v |-> e])
        ELSE Append(rest, [k |-> rid, v |-> e])

\* LruCache::put on a cache of capacity cap: replaces or inserts as most
\* recent, dropping the least recent on overflow
PutWithin(fs, rid, e, cap) ==
    LET ins == Append(Without(fs, rid), [k |-> rid, v |-> e])
    IN  IF Len(ins) > cap THEN Tail(ins) ELSE ins

Put(fs, rid, e) == PutWithin(fs, rid, e, CACHE_SIZE)

\* LruCache::pop
Pop(fs, rid) == Without(fs, rid)

-----------------------------------------------------------------------------
VARIABLES
    files,      \* DiskCache.files
    state,      \* state[e]: FileCache.state of entry e (and its remote_id)
    download,   \* download[e]: the download task spawned for entry e; it owns tx
    upload,     \* upload[t]: the done channel made at Instant t and the task owning done_tx
    op,         \* op[c]: the operation caller c is in
    remote,     \* remote[rid]: the message of the saved-messages chat
    now,        \* the last Instant::now() reading
    nent,       \* FileCache objects constructed
    nops,       \* operations begun
    nfaults,    \* remote calls that failed
    panicked,   \* the last panic site reached ("none" when none)
    truncated,  \* truncated[rid]: the new_size of the truncate that returned Ok last,
                \* -1 once another operation began or returned
    fsynced,    \* fsynced[rid]: the edit_messages issued for rid before the blocking
                \* flush that returned Ok last began, -1 once another operation
                \* began or returned
    plan,       \* the workload: the operations the callers issue, in order, one
                \* after the other; <<>> when they issue any, concurrently
    node        \* node[rid]: the size column of the file's row in the metadata store

vars == <<files, state, download, upload, op, remote, now, nent, nops, nfaults, panicked, truncated, fsynced, plan, node>>

NoState ==
    [remote_id |-> 0, file_size |-> 0, file |-> <<>>, status |-> "None",
     truncate |-> -1, lock_mtime |-> 0, available_size |-> 0,
     rev |-> 0, crev |-> 0, committed |-> <<>>, woff |-> 0, wlen |-> 0]

NoDownload == [pc |-> "none", pos |-> 0, media |-> <<>>, failed |-> FALSE, guard |-> -1]

NoUpload ==
    [kind |-> "none", ent |-> 0, pc |-> "none", file_size |-> 0, buf |-> <<>>,
     done |-> FALSE, rev |-> 0, raced |-> FALSE, sent |-> FALSE, failed |-> FALSE,
     guard |-> "none"]

Idle ==
    [kind |-> "idle", pc |-> "idle", rid |-> 0, h |-> 0, offset |-> 0, size |-> 0,
     block |-> FALSE, truncate |-> -1, media |-> <<>>, rx |-> 0, old |-> 0,
     res |-> "none", out |-> <<>>, rev |-> 0, pre |-> "None", was |-> 0,
     after |-> -1, edits |-> 0, fsync |-> -1, waited |-> FALSE,
     err |-> [kind |-> "none", arg |-> "none"], errno |-> 0, new_size |-> 0,
     mutex |-> "none", guard |-> "none"]

\* the message kinds alloc tells apart
Placeholder == [kind |-> "empty", data |-> <<0>>]
Document(d) == [kind |-> "document", data |-> d]
OtherMedia == [kind |-> "other", data |-> <<>>]
Missing == [kind |-> "missing", data |-> <<>>]

\* the size the metadata store holds for a file whose message is r
Stored(r) == IF r.kind = "document" THEN Len(r.data) ELSE 0

\* the document the remote holds at the start: bytes 1, 2, ..
InitialData == [i \in 1..MaxSize |-> i]

Init ==
    /\ files = <<>>
    /\ state = [e \in Ents |-> NoState]
    /\ download = [e \in Ents |-> NoDownload]
    /\ upload = [t \in Epochs |-> NoUpload]
    /\ op = [c \in Callers |-> Idle]
    /\ remote \in [Rids -> {Placeholder, Document(InitialData), OtherMedia}]
    /\ now = 0
    /\ nent = 0
    /\ nops = 0
    /\ nfaults = 0
    /\ panicked = "none"
    /\ truncated = [rid \in Rids |-> -1]
    /\ fsynced = [rid \in Rids |-> -1]
    /\ plan = <<>>
    /\ node = [rid \in Rids |-> Stored(remote[rid])]

-----------------------------------------------------------------------------
(* Reference counts and channels *)

\* no caller stands at a return: a result is taken by its caller (Return)
\* before anything else moves
Quiet == \A c \in Callers : op[c].pc # "done"

\* a sender dropped as soon as the chunk stream ended
TxClosedAtStreamEnd(e) == download[e].pc \in {"none", "done", "final"}

\* the watch::Sender<u64> of entry e is dropped: its download task returned, or
\* FileCache::new's sender was dropped at once (insert_empty)
TxClosed(e) == download[e].pc \in {"none", "done"}

\* the watch::Sender<bool> made at Instant t is dropped
DoneClosed(t) == upload[t].pc \in {"closed", "done", "panic"}

\* callers holding an Arc of entry e
Holders(e) ==
    {c \in Callers : /\ op[c].pc \notin {"idle", "done"}
                     /\ \/ op[c].h = e
                        \/ op[c].old = e}

\* upload tasks alive with their clone of entry e
Uploaders(e) == {t \in Epochs : upload[t].kind = "upload" /\ upload[t].ent = e
                                /\ upload[t].pc \in {"check1", "check2", "edit", "final"}}

\* Arc::strong_count(&this) as the download task of e sees it
StrongCount(e) ==
    1 + (IF Lookup(files, state[e].remote_id) = e THEN 1 ELSE 0)
      + Cardinality(Holders(e)) + Cardinality(Uploaders(e))

-----------------------------------------------------------------------------
(* FileCache::upload: the launcher and the task it spawns *)

\* what a caller may still begin, and what the clock may still stamp
CanStamp == now < MaxEpoch
CanFail == nfaults < MaxFaults

\* the launcher, run under the guard of entry e on the entry states s: a fresh
\* done channel and lock_mtime, status Dirty, and the spawned task
Launched(s, e) ==
    [s EXCEPT ![e].status = "Dirty", ![e].lock_mtime = now + 1, ![e].truncate = -1]

Spawned(e) ==
    [upload EXCEPT ![now + 1] =
        [kind |-> "upload", ent |-> e, pc |-> "check1", file_size |-> 0,
         buf |-> <<>>, done |-> FALSE, rev |-> 0, raced |-> FALSE, sent |-> FALSE, failed |-> FALSE,
         guard |-> "none"]]

\* a task that goes on only while the table holds its entry
IsUpToDateWhileTabled(t) ==
    /\ state[upload[t].ent].status = "Dirty"
    /\ state[upload[t].ent].lock_mtime = t
    /\ Lookup(files, state[upload[t].ent].remote_id) = upload[t].ent

\* the closure is_up_to_date of the task spawned at Instant t
IsUpToDate(t) ==
    /\ state[upload[t].ent].status = "Dirty"
    /\ state[upload[t].ent].lock_mtime = t

\* "Check not changed since last lock": the first lock of the task
UploadCheck(t) ==
    /\ Quiet
    /\ upload[t].kind = "upload" /\ upload[t].pc = "check1"
    /\ upload' = IF IsUpToDate(t)
                 THEN [upload EXCEPT ![t].pc = "check2",
                                     ![t].file_size = state[upload[t].ent].file_size]
                 ELSE [upload EXCEPT ![t].pc = "closed"]
    /\ UNCHANGED <<files, state, download, op, remote, now, nent, nops, nfaults, panicked, truncated, fsynced, plan, node>>

\* the second lock: the assertion, and the buffer read (or, for an empty file,
\* the one-byte upload_stream, made while the guard is held)
UploadRead(t) ==
    LET e == upload[t].ent IN
    /\ Quiet
    /\ upload[t].kind = "upload" /\ upload[t].pc = "check2"
    /\ IF ~IsUpToDate(t)
       THEN /\ upload' = [upload EXCEPT ![t].pc = "closed"]
            /\ UNCHANGED <<nfaults, panicked>>
       ELSE IF upload[t].file_size # state[e].file_size
       THEN /\ upload' = [upload EXCEPT ![t].pc = "panic"]
            /\ panicked' = "upload_assert"
            /\ UNCHANGED nfaults
       ELSE IF upload[t].file_size = 0
       THEN \/ /\ upload' = [upload EXCEPT ![t].pc = "edit", ![t].buf = <<>>,
                                           ![t].rev = state[e].rev]
               /\ UNCHANGED <<nfaults, panicked>>
            \/ /\ CanFail
               /\ upload' = [upload EXCEPT ![t].pc = "closed", ![t].failed = TRUE]
               /\ nfaults' = nfaults + 1
               /\ UNCHANGED panicked
       ELSE /\ upload' = [upload EXCEPT
                 ![t].pc = "edit",
                 ![t].buf = ReadExact(state[e].file, 0, upload[t].file_size),
                 ![t].rev = state[e].rev]
            /\ UNCHANGED <<nfaults, panicked>>
    /\ UNCHANGED <<files, state, download, op, remote, now, nent, nops, truncated, fsynced, plan, node>>

\* the payload of the edit: an empty file goes out as one zero byte
Payload(buf) == IF buf = <<>> THEN <<0>> ELSE buf

\* upload_stream of the buffer (guard released) and edit_message
UploadEdit(t) ==
    LET e == upload[t].ent
        rid == state[e].remote_id IN
    /\ Quiet
    /\ upload[t].kind = "upload" /\ upload[t].pc = "edit"
    /\ \/ /\ remote[rid].kind # "missing"
          /\ remote' = [remote EXCEPT ![rid] = Document(Payload(upload[t].buf))]
          /\ state' = [state EXCEPT ![e].committed = upload[t].buf,
                                    ![e].crev = Max(@, upload[t].rev)]
          /\ upload' = [upload EXCEPT ![t].pc = "final", ![t].sent = TRUE]
          /\ UNCHANGED nfaults
       \/ /\ remote[rid].kind = "missing"
          /\ upload' = [upload EXCEPT ![t].pc = "closed", ![t].buf = <<>>,
                                      ![t].failed = TRUE]
          /\ UNCHANGED <<remote, state, nfaults>>
       \/ /\ CanFail
          /\ upload' = [upload EXCEPT ![t].pc = "closed", ![t].buf = <<>>,
                                      ![t].failed = TRUE]
          /\ nfaults' = nfaults + 1
          /\ UNCHANGED <<remote, state>>
    /\ UNCHANGED <<files, download, op, now, nent, nops, panicked, truncated, fsynced, plan, node>>

\* a final step that sets Ready on any Dirty status, whatever its lock_mtime
FinalizedAnyEpoch(t) ==
    LET e == upload[t].ent IN
    IF state[e].status = "Dirty"
    THEN [state EXCEPT ![e].status = "Ready", ![e].lock_mtime = 0]
    ELSE state

\* the status the task leaves after a successful edit_message
Finalized(t) ==
    LET e == upload[t].ent IN
    IF state[e].status = "Dirty" /\ state[e].lock_mtime = t
    THEN [state EXCEPT ![e].status = "Ready", ![e].lock_mtime = 0]
    ELSE state

\* the last lock of the task: Ready and done_tx.send(true), or suppressed
UploadFinal(t) ==
    LET e == upload[t].ent IN
    /\ Quiet
    /\ upload[t].kind = "upload" /\ upload[t].pc = "final"
    /\ IF state[e].status = "Downloading"
       THEN /\ upload' = [upload EXCEPT ![t].pc = "panic"]
            /\ panicked' = "upload_unreachable"
            /\ UNCHANGED state
       ELSE /\ state' = Finalized(t)
            /\ upload' = IF state[e].status = "Dirty" /\ state[e].lock_mtime = t
                         THEN [upload EXCEPT ![t].pc = "done", ![t].done = TRUE]
                         ELSE [upload EXCEPT ![t].pc = "closed"]
            /\ UNCHANGED panicked
    /\ UNCHANGED <<files, download, op, remote, now, nent, nops, nfaults, truncated, fsynced, plan, node>>

-----------------------------------------------------------------------------
(* FileCache::download *)

\* a download that goes on whoever holds the entry
DownloadSizeIgnoringHolders(e) ==
    IF state[e].status = "Downloading" /\ state[e].truncate # -1
        THEN state[e].truncate
    ELSE IF state[e].status = "Downloading" THEN state[e].file_size
    ELSE IF state[e].status = "Invalidated" THEN -1
    ELSE -2

\* the bytes the download task has to write, as it reads them from the status
\* at a chunk boundary: -1 when it returns instead (orphaned or invalidated),
\* -2 for the unreachable!() arm
DownloadSize(e) ==
    IF state[e].status = "Downloading" /\ state[e].truncate # -1
        THEN state[e].truncate
    ELSE IF state[e].status = "Downloading" /\ StrongCount(e) # 1
        THEN state[e].file_size
    ELSE IF state[e].status \in {"Downloading", "Invalidated"} THEN -1
    ELSE -2

\* a completion that sets Ready and leaves a pending truncate where it is
CompleteWithoutUpload(s, e) == [s EXCEPT ![e].status = "Ready", ![e].truncate = -1]

\* the closure complete: a pending truncate launches the upload, else Ready
Complete(s, e) ==
    IF s[e].truncate # -1 THEN Launched(s, e)
    ELSE [s EXCEPT ![e].status = "Ready"]

\* the chunk stream fails: DownloadFailed, whatever the status was
DownloadError(e) ==
    /\ Quiet
    /\ download[e].pc = "run"
    /\ CanFail
    /\ nfaults' = nfaults + 1
    /\ state' = [state EXCEPT ![e].status = "DownloadFailed", ![e].truncate = -1,
                              ![e].lock_mtime = 0]
    /\ download' = [download EXCEPT ![e] = [NoDownload EXCEPT !.pc = "done", !.failed = TRUE]]
    /\ UNCHANGED <<files, upload, op, remote, now, nent, nops, panicked, truncated, fsynced, plan, node>>

\* the chunk stream ends: at the end of the media, or short of it
DownloadEnd(e) ==
    /\ Quiet
    /\ download[e].pc = "run"
    /\ \/ /\ download[e].pos >= Len(download[e].media)
          /\ UNCHANGED nfaults
       \/ /\ download[e].pos < Len(download[e].media)
          /\ CanFail
          /\ nfaults' = nfaults + 1
    /\ download' = [download EXCEPT ![e].pc = "final"]
    /\ UNCHANGED <<files, state, upload, op, remote, now, nent, nops, panicked, truncated, fsynced, plan, node>>

\* one chunk of n bytes arrives and is handled under the guard
DownloadChunk(e, n) ==
    LET d == download[e]
        download_size == DownloadSize(e)
        rest_len == Max(download_size - d.pos, 0)
        len == Min(n, rest_len)
        chunk == SubSeq(d.media, d.pos + 1, d.pos + len)
        pos == d.pos + len
        written == [state EXCEPT ![e].file =
                       IF chunk = <<>> THEN @ ELSE WriteAll(@, d.pos, chunk)]
    IN
    /\ Quiet
    /\ d.pc = "run"
    /\ d.pos + n <= Len(d.media)
    /\ IF download_size = -1
       THEN /\ download' = [download EXCEPT ![e] = [NoDownload EXCEPT !.pc = "done"]]
            /\ UNCHANGED <<state, upload, now, panicked>>
       ELSE IF download_size = -2
       THEN /\ download' = [download EXCEPT ![e] = [NoDownload EXCEPT !.pc = "done"]]
            /\ panicked' = "download_unreachable"
            /\ UNCHANGED <<state, upload, now>>
       ELSE IF download_size > state[e].file_size
       THEN /\ download' = [download EXCEPT ![e] = [NoDownload EXCEPT !.pc = "done"]]
            /\ panicked' = "download_assert"
            /\ UNCHANGED <<state, upload, now>>
       ELSE IF pos < download_size
       THEN /\ state' = [written EXCEPT ![e].available_size = pos]
            /\ download' = [download EXCEPT ![e].pos = pos]
            /\ UNCHANGED <<upload, now, panicked>>
       ELSE /\ state[e].truncate # -1 => CanStamp
            /\ state' = Complete([written EXCEPT ![e].available_size = state[e].file_size], e)
            /\ download' = [download EXCEPT ![e] = [NoDownload EXCEPT !.pc = "done"]]
            /\ IF state[e].truncate # -1
               THEN upload' = Spawned(e) /\ now' = now + 1
               ELSE UNCHANGED <<upload, now>>
            /\ UNCHANGED panicked
    /\ UNCHANGED <<files, op, remote, nent, nops, nfaults, truncated, fsynced, plan, node>>

\* after the stream ended: DownloadFailed when short, else complete
DownloadFinal(e) ==
    LET d == download[e] IN
    /\ Quiet
    /\ d.pc = "final"
    /\ download' = [download EXCEPT ![e] =
           [NoDownload EXCEPT !.pc = "done",
                              !.failed = /\ state[e].status = "Downloading"
                                         /\ d.pos < (IF state[e].truncate # -1
                                                     THEN state[e].truncate
                                                     ELSE state[e].file_size)]]
    /\ IF state[e].status = "Downloading"
       THEN LET download_size == IF state[e].truncate # -1 THEN state[e].truncate
                                 ELSE state[e].file_size
            IN  IF d.pos < download_size
                THEN /\ state' = [state EXCEPT ![e].status = "DownloadFailed",
                                               ![e].truncate = -1]
                     /\ UNCHANGED <<upload, now, panicked>>
                ELSE /\ state[e].truncate # -1 => CanStamp
                     /\ state' = Complete(state, e)
                     /\ IF state[e].truncate # -1
                        THEN upload' = Spawned(e) /\ now' = now + 1
                        ELSE UNCHANGED <<upload, now>>
                     /\ UNCHANGED panicked
       ELSE IF state[e].status = "Invalidated"
       THEN UNCHANGED <<state, upload, now, panicked>>
       ELSE /\ panicked' = "download_unreachable"
            /\ UNCHANGED <<state, upload, now>>
    /\ UNCHANGED <<files, op, remote, nent, nops, nfaults, truncated, fsynced, plan, node>>

-----------------------------------------------------------------------------
(* The callers' operations *)

Free(c) == op[c].pc = "idle"

\* a caller begins an operation: the free caller of least index takes it; a
\* planned workload issues its next operation once the last one returned
CanBegin(c) ==
    /\ Quiet
    /\ Free(c)
    /\ IF plan = <<>> THEN nops < MaxOps
       ELSE nops < Len(plan) /\ \A d \in Callers : Free(d)
    /\ \A d \in Callers : d < c => ~Free(d)

\* one operation of a workload
Step(kind, offset, size, block) ==
    [kind |-> kind, offset |-> offset, size |-> size, block |-> block]

\* the workload issues this operation next
Planned(kind, offset, size, block) ==
    plan # <<>> => plan[nops + 1] = Step(kind, offset, size, block)

Begun(c, o) ==
    /\ op' = [d \in Callers |-> IF d = c THEN o
                                ELSE [op[d] EXCEPT !.after = -1, !.fsync = -1]]
    /\ nops' = nops + 1
    /\ truncated' = [rid \in Rids |-> -1]
    /\ fsynced' = [rid \in Rids |-> -1]
    /\ UNCHANGED <<plan, node>>

Start(kind, rid) == [Idle EXCEPT !.kind = kind, !.rid = rid]

\* the operation returns res; its handles are dropped
Finish(o, res) == [o EXCEPT !.pc = "done", !.res = res, !.media = <<>>, !.old = 0]

\* the truncate that returned Ok just before this operation begins, with nothing
\* in between and nothing else in flight: its new_size, else -1
Preceding(rid) == IF \A d \in Callers : Free(d) THEN truncated[rid] ELSE -1

\* the blocking flush that returned Ok just before this operation begins, with
\* nothing in between and nothing else in flight: the edit_messages issued
\* before it began, else -1
PrecedingFsync(rid) == IF \A d \in Callers : Free(d) THEN fsynced[rid] ELSE -1

\* the edit_messages the upload tasks of rid's entries have issued
Edits(rid) ==
    Cardinality({t \in Epochs : upload[t].sent /\ state[upload[t].ent].remote_id = rid})

\* the caller takes the result: the operation is over
Return(c) ==
    /\ op[c].pc = "done"
    /\ op' = [op EXCEPT ![c] = Idle]
    /\ truncated' = [rid \in Rids |->
           IF op[c].kind = "truncate" /\ op[c].res = "ok" /\ op[c].rid = rid
           THEN op[c].size ELSE -1]
    /\ fsynced' = [rid \in Rids |->
           IF op[c].kind = "flush" /\ op[c].block /\ op[c].res = "ok" /\ op[c].rid = rid
           THEN op[c].edits ELSE -1]
    /\ UNCHANGED <<files, state, download, upload, remote, now, nent, nops, nfaults,
                   panicked, plan, node>>

(* FileCache::read, called by Vfs::read_file on the handle DiskCache::get gives *)

ReadBegin(c, rid, offset, size) ==
    LET h == Lookup(files, rid)
        o == [Start("read", rid) EXCEPT !.h = h, !.offset = offset, !.size = size,
                                        !.after = Preceding(rid)]
    IN
    /\ CanBegin(c)
    /\ Planned("read", offset, size, FALSE)
    /\ files' = GetMut(files, rid)
    /\ Begun(c, IF h = 0 THEN Finish(o, "NotFound") ELSE [o EXCEPT !.pc = "lock"])
    /\ UNCHANGED <<state, download, upload, remote, now, nent, nfaults, panicked>>

\* the tail of read: end.min(file_size), the buffer of end - offset bytes, read_exact
Served(o) ==
    LET st == state[o.h]
        end == Min(o.offset + o.size, st.file_size)
    IN  IF end < o.offset \/ end > Len(st.file) THEN Finish(o, "panic")
        ELSE [Finish(o, "ok") EXCEPT !.out = ReadExact(st.file, o.offset, end)]

\* a read that serves a Downloading entry without looking at what is published
ReadWithoutWaiting(o) ==
    LET st == state[o.h] IN
    IF st.file_size <= o.offset \/ o.size = 0 THEN Finish(o, "ok")
    ELSE IF st.status \in {"Ready", "Dirty", "Downloading"} THEN Served(o)
    ELSE IF st.status = "Invalidated" THEN Finish(o, "Invalidated")
    ELSE Finish(o, "DownloadFailed")

\* read up to its first match on the status
Read(o) ==
    LET st == state[o.h] IN
    IF st.file_size <= o.offset \/ o.size = 0 THEN Finish(o, "ok")
    ELSE IF st.status \in {"Ready", "Dirty"} THEN Served(o)
    ELSE IF st.status = "Invalidated" THEN Finish(o, "Invalidated")
    ELSE IF st.status = "DownloadFailed" THEN Finish(o, "DownloadFailed")
    ELSE IF o.offset + o.size <= st.available_size THEN Served(o)
    ELSE [o EXCEPT !.pc = "wait", !.waited = TRUE]

ReadLock(c) ==
    /\ Quiet
    /\ op[c].kind = "read" /\ op[c].pc = "lock"
    /\ op' = [op EXCEPT ![c] = [Read(op[c]) EXCEPT !.pre = state[op[c].h].status]]
    /\ panicked' = IF Read(op[c]).res = "panic" THEN "read" ELSE panicked
    /\ UNCHANGED <<files, state, download, upload, remote, now, nent, nops, nfaults, truncated, fsynced, plan, node>>

\* a wait that ends only when tx is dropped
ReadWakeAtExit(c) ==
    /\ Quiet
    /\ op[c].kind = "read" /\ op[c].pc = "wait"
    /\ TxClosed(op[c].h)
    /\ op' = [op EXCEPT ![c].pc = "relock"]
    /\ UNCHANGED <<files, state, download, upload, remote, now, nent, nops, nfaults,
                   panicked, truncated, fsynced, plan, node>>

\* rx.changed() returns: enough bytes are published, or tx is dropped
ReadWake(c) ==
    /\ Quiet
    /\ op[c].kind = "read" /\ op[c].pc = "wait"
    /\ \/ TxClosed(op[c].h)
       \/ state[op[c].h].available_size >= op[c].offset + op[c].size
    /\ op' = [op EXCEPT ![c].pc = "relock"]
    /\ UNCHANGED <<files, state, download, upload, remote, now, nent, nops, nfaults,
                   panicked, truncated, fsynced, plan, node>>

\* read after its wait: the second match on the status
Reread(o) ==
    LET st == state[o.h] IN
    IF st.status = "Invalidated" THEN Finish(o, "Invalidated")
    ELSE IF st.status = "DownloadFailed" THEN Finish(o, "DownloadFailed")
    ELSE Served(o)

ReadRelock(c) ==
    /\ Quiet
    /\ op[c].kind = "read" /\ op[c].pc = "relock"
    /\ op' = [op EXCEPT ![c] = [Reread(op[c]) EXCEPT !.pre = state[op[c].h].status]]
    /\ panicked' = IF Reread(op[c]).res = "panic" THEN "read" ELSE panicked
    /\ UNCHANGED <<files, state, download, upload, remote, now, nent, nops, nfaults, truncated, fsynced, plan, node>>

(* FileCache::write, called by Vfs::write_file and DiskCache::write_file *)

WriteBegin(c, rid, offset, len) ==
    LET h == Lookup(files, rid)
        o == [Start("write", rid) EXCEPT !.h = h, !.offset = offset, !.size = len]
    IN
    /\ CanBegin(c)
    /\ Planned("write", offset, len, FALSE)
    /\ offset + len <= MaxSize
    /\ files' = GetMut(files, rid)
    /\ Begun(c, IF h = 0 THEN Finish(o, "NotFound") ELSE [o EXCEPT !.pc = "lock"])
    /\ UNCHANGED <<state, download, upload, remote, now, nent, nfaults, panicked>>

\* the status a write leaves: Ready becomes Dirty at a fresh Instant, Dirty stays
Dirtied(st) ==
    IF st.status = "Ready"
    THEN [st EXCEPT !.status = "Dirty", !.lock_mtime = now + 1]
    ELSE st

\* a write that stores the bytes and leaves file_size as it was
WrittenKeepingSize(o) ==
    LET st == Dirtied(state[o.h])
        data == [i \in 1..o.size |-> WriteByte]
    IN  [st EXCEPT !.file = WriteAll(@, o.offset, data),
                   !.rev = @ + 1,
                   !.woff = o.offset,
                   !.wlen = o.size]

\* write from its second match on: the status, the bytes, the new file_size
Written(o) ==
    LET st == Dirtied(state[o.h])
        data == [i \in 1..o.size |-> WriteByte]
    IN  [st EXCEPT !.file = WriteAll(@, o.offset, data),
                   !.file_size = Max(@, o.offset + o.size),
                   !.rev = IF WriteAll(st.file, o.offset, data) = st.file THEN @ ELSE @ + 1,
                   !.woff = o.offset,
                   !.wlen = o.size]

\* the done channels after a write on entry e: a Ready entry gets a channel
\* that already holds true and has no sender left
Channels(e) ==
    LET marked == [t \in Epochs |->
                     IF upload[t].kind = "upload" /\ upload[t].ent = e
                        /\ upload[t].pc = "edit"
                     THEN [upload[t] EXCEPT !.raced = TRUE] ELSE upload[t]]
    IN  IF state[e].status = "Ready"
        THEN [marked EXCEPT ![now + 1] =
                [NoUpload EXCEPT !.kind = "write", !.ent = e, !.pc = "closed",
                                 !.done = TRUE]]
        ELSE marked

Apply(c) ==
    LET o == op[c] IN
    /\ state[o.h].status = "Ready" => CanStamp
    /\ state' = [state EXCEPT ![o.h] = Written(o)]
    /\ upload' = Channels(o.h)
    /\ now' = IF state[o.h].status = "Ready" THEN now + 1 ELSE now
    /\ op' = [op EXCEPT ![c] = [Finish(o, "ok") EXCEPT !.pre = state[o.h].status,
                                                        !.was = state[o.h].file_size]]
    /\ UNCHANGED panicked

Refuse(c, res) ==
    /\ op' = [op EXCEPT ![c] = [Finish(op[c], res) EXCEPT !.pre = state[op[c].h].status]]
    /\ UNCHANGED <<state, upload, now, panicked>>

\* a write that does not wait for the download
WriteLockNotWaiting(c) ==
    LET st == state[op[c].h] IN
    /\ Quiet
    /\ op[c].kind = "write" /\ op[c].pc = "lock"
    /\ IF st.status \in {"Ready", "Dirty", "Downloading"} THEN Apply(c)
       ELSE Refuse(c, st.status)
    /\ UNCHANGED <<files, download, remote, nent, nops, nfaults, truncated, fsynced, plan, node>>

WriteLock(c) ==
    LET st == state[op[c].h] IN
    /\ Quiet
    /\ op[c].kind = "write" /\ op[c].pc = "lock"
    /\ IF st.status \in {"Ready", "Dirty"} THEN Apply(c)
       ELSE IF st.status \in {"Invalidated", "DownloadFailed"} THEN Refuse(c, st.status)
       ELSE /\ op' = [op EXCEPT ![c].pc = "wait", ![c].waited = TRUE]
            /\ UNCHANGED <<state, upload, now, panicked>>
    /\ UNCHANGED <<files, download, remote, nent, nops, nfaults, truncated, fsynced, plan, node>>

\* "Wait until finished": tx is dropped, then the second match
WriteRelock(c) ==
    LET st == state[op[c].h] IN
    /\ Quiet
    /\ op[c].kind = "write" /\ op[c].pc = "wait"
    /\ TxClosed(op[c].h)
    /\ IF st.status \in {"Ready", "Dirty"} THEN Apply(c)
       ELSE IF st.status \in {"Invalidated", "DownloadFailed"} THEN Refuse(c, st.status)
       ELSE /\ op' = [op EXCEPT ![c] = Finish(op[c], "panic")]
            /\ panicked' = "write_unreachable"
            /\ UNCHANGED <<state, upload, now>>
    /\ UNCHANGED <<files, download, remote, nent, nops, nfaults, truncated, fsynced, plan, node>>

(* DiskCache::alloc, insert_empty, upload_empty_file, try_alloc_and_fetch *)

\* an alloc that takes any media for an empty file
AllocMessagesLenient(c) ==
    LET o == op[c]
        msg == remote[o.rid] IN
    /\ Quiet
    /\ o.pc = "alloc"
    /\ \/ /\ op' = [op EXCEPT ![c] =
                 IF msg.kind = "missing" THEN Finish(o, "NotFound")
                 ELSE IF msg.kind = "document"
                      THEN [o EXCEPT !.pc = "fetch", !.media = msg.data]
                 ELSE [o EXCEPT !.pc = "insert_empty"]]
          /\ UNCHANGED nfaults
       \/ /\ CanFail
          /\ nfaults' = nfaults + 1
          /\ op' = [op EXCEPT ![c] = Finish(o, "RemoteError")]
    /\ UNCHANGED <<files, state, download, upload, remote, now, nent, nops, panicked, truncated, fsynced, plan, node>>

\* get_messages_by_id and the classification of the message
AllocMessages(c) ==
    LET o == op[c]
        msg == remote[o.rid] IN
    /\ Quiet
    /\ o.pc = "alloc"
    /\ \/ /\ op' = [op EXCEPT ![c] =
                 IF msg.kind = "missing" THEN Finish(o, "NotFound")
                 ELSE IF msg.kind = "empty" THEN [o EXCEPT !.pc = "insert_empty"]
                 ELSE IF msg.kind = "document"
                      THEN [o EXCEPT !.pc = "fetch", !.media = msg.data]
                 ELSE Finish(o, "MediaInvalid")]
          /\ UNCHANGED nfaults
       \/ /\ CanFail
          /\ nfaults' = nfaults + 1
          /\ op' = [op EXCEPT ![c] = Finish(o, "RemoteError")]
    /\ UNCHANGED <<files, state, download, upload, remote, now, nent, nops, panicked, truncated, fsynced, plan, node>>

\* the (file_size, download_truncate) try_alloc_and_fetch derives
FileSize(truncate, media_size) == IF truncate = -1 THEN media_size ELSE truncate
DownloadTruncate(truncate, media_size) ==
    IF truncate = -1 THEN -1 ELSE Min(media_size, truncate)

\* FileCache::new as try_alloc_and_fetch calls it
Fetching(rid, truncate, media) ==
    [NoState EXCEPT
        !.remote_id = rid,
        !.file_size = FileSize(truncate, Len(media)),
        !.file = SetLen(<<>>, FileSize(truncate, Len(media))),
        !.status = "Downloading",
        !.truncate = DownloadTruncate(truncate, Len(media)),
        !.rev = IF truncate = -1 \/ truncate = Len(media) THEN 0 ELSE 1,
        !.committed = media]

TryAllocAndFetch(c) ==
    LET o == op[c]
        e == nent + 1 IN
    /\ Quiet
    /\ o.pc = "fetch"
    /\ IF Lookup(files, o.rid) # 0
       THEN /\ files' = GetMut(files, o.rid)
            /\ UNCHANGED <<state, download, nent>>
       ELSE /\ nent < MaxEnt
            /\ nent' = e
            /\ state' = [state EXCEPT ![e] = Fetching(o.rid, o.truncate, o.media)]
            /\ files' = Put(files, o.rid, e)
            /\ download' = [download EXCEPT ![e] =
                   [NoDownload EXCEPT !.pc = "run", !.media = o.media]]
    /\ op' = [op EXCEPT ![c] = Finish(o, "ok")]
    /\ UNCHANGED <<upload, remote, now, nops, nfaults, panicked, truncated, fsynced, plan, node>>

\* FileCache::new as insert_empty calls it
Empty(rid) == [NoState EXCEPT !.remote_id = rid, !.status = "Ready"]

\* insert_empty up to the release of the table mutex: the put
InsertEmpty(c) ==
    LET o == op[c]
        e == nent + 1
        old == Lookup(files, o.rid) IN
    /\ Quiet
    /\ o.pc = "insert_empty"
    /\ nent < MaxEnt
    /\ nent' = e
    /\ state' = [state EXCEPT ![e] = Empty(o.rid)]
    /\ files' = Put(files, o.rid, e)
    /\ op' = [op EXCEPT ![c] =
           IF old = 0 THEN Finish(o, "ok") ELSE [o EXCEPT !.pc = "invalidate", !.old = old]]
    /\ UNCHANGED <<download, upload, remote, now, nops, nfaults, panicked, truncated, fsynced, plan, node>>

\* insert_empty after the put: the replaced entry is marked under its guard
Invalidate(c) ==
    LET o == op[c] IN
    /\ Quiet
    /\ o.pc = "invalidate"
    /\ state' = [state EXCEPT ![o.old].status = "Invalidated", ![o.old].truncate = -1,
                              ![o.old].lock_mtime = 0]
    /\ op' = [op EXCEPT ![c] = Finish(o, "ok")]
    /\ UNCHANGED <<files, download, upload, remote, now, nent, nops, nfaults, panicked, truncated, fsynced, plan, node>>

\* upload_empty_file(name, Some(remote_id)): the one-byte upload_stream and the
\* edit_message with an empty text
UploadEmptyFile(c) ==
    LET o == op[c] IN
    /\ Quiet
    /\ o.pc = "upload_empty_file"
    /\ \/ /\ remote[o.rid].kind # "missing"
          /\ remote' = [remote EXCEPT ![o.rid] = Placeholder]
          /\ op' = [op EXCEPT ![c].pc = "insert_empty"]
          /\ UNCHANGED nfaults
       \/ /\ remote[o.rid].kind = "missing"
          /\ op' = [op EXCEPT ![c] = Finish(o, "RemoteError")]
          /\ UNCHANGED <<remote, nfaults>>
       \/ /\ CanFail
          /\ nfaults' = nfaults + 1
          /\ op' = [op EXCEPT ![c] = Finish(o, "RemoteError")]
          /\ UNCHANGED remote
    /\ UNCHANGED <<files, state, download, upload, now, nent, nops, panicked, truncated, fsynced, plan, node>>

(* DiskCache::open *)

OpenBegin(c, rid) ==
    LET o == Start("open", rid) IN
    /\ CanBegin(c)
    /\ Planned("open", 0, 0, FALSE)
    /\ files' = GetMut(files, rid)
    /\ Begun(c, IF Lookup(files, rid) # 0 THEN Finish(o, "ok") ELSE [o EXCEPT !.pc = "alloc"])
    /\ UNCHANGED <<state, download, upload, remote, now, nent, nfaults, panicked>>

(* DiskCache::delete *)

\* DiskCache::remove, and what an overflowing LruCache::put does to the least
\* recently used rid: the table's reference is dropped
RemoveBegin(c, rid) ==
    /\ CanBegin(c)
    /\ Planned("remove", 0, 0, FALSE)
    /\ Lookup(files, rid) # 0
    /\ files' = Pop(files, rid)
    /\ Begun(c, Finish(Start("remove", rid), "ok"))
    /\ UNCHANGED <<state, download, upload, remote, now, nent, nfaults, panicked>>

DeleteBegin(c, rid) ==
    /\ CanBegin(c)
    /\ Planned("delete", 0, 0, FALSE)
    /\ files' = Pop(files, rid)
    /\ Begun(c, [Start("delete", rid) EXCEPT !.pc = "delete_messages"])
    /\ UNCHANGED <<state, download, upload, remote, now, nent, nfaults, panicked>>

\* a delete that returns the error of delete_messages
DeleteMessagesFailing(c) ==
    LET o == op[c] IN
    /\ Quiet
    /\ o.pc = "delete_messages"
    /\ \/ /\ remote' = [remote EXCEPT ![o.rid] = Missing]
          /\ op' = [op EXCEPT ![c] = Finish(o, "ok")]
          /\ UNCHANGED nfaults
       \/ /\ CanFail
          /\ nfaults' = nfaults + 1
          /\ op' = [op EXCEPT ![c] = Finish(o, "RemoteError")]
          /\ UNCHANGED remote
    /\ UNCHANGED <<files, state, download, upload, now, nent, nops, panicked, truncated, fsynced, plan, node>>

\* delete_messages: its error is dropped
DeleteMessages(c) ==
    LET o == op[c] IN
    /\ Quiet
    /\ o.pc = "delete_messages"
    /\ \/ /\ remote' = [remote EXCEPT ![o.rid] = Missing]
          /\ UNCHANGED nfaults
       \/ /\ CanFail
          /\ nfaults' = nfaults + 1
          /\ UNCHANGED remote
    /\ op' = [op EXCEPT ![c] = Finish(o, "ok")]
    /\ UNCHANGED <<files, state, download, upload, now, nent, nops, panicked, truncated, fsynced, plan, node>>

(* DiskCache::truncate_file *)

TruncateBegin(c, rid, new_size) ==
    LET h == Lookup(files, rid)
        o == [Start("truncate", rid) EXCEPT !.h = h, !.size = new_size] IN
    /\ CanBegin(c)
    /\ Planned("truncate", 0, new_size, FALSE)
    /\ files' = GetMut(files, rid)
    /\ Begun(c, IF h # 0 THEN [o EXCEPT !.pc = "lock"]
                ELSE IF new_size = 0 THEN [o EXCEPT !.pc = "upload_empty_file"]
                ELSE [o EXCEPT !.pc = "alloc", !.truncate = new_size])
    /\ UNCHANGED <<state, download, upload, remote, now, nent, nfaults, panicked>>

\* a truncate that records new_size as the pending truncate, whatever was pending
TruncatedRaisingCap(st, new_size) ==
    [st EXCEPT !.truncate = IF st.status = "Downloading" THEN new_size ELSE @,
               !.file_size = new_size,
               !.file = SetLen(@, new_size),
               !.rev = @ + 1,
               !.woff = 0,
               !.wlen = 0]

\* the entry a truncate leaves when it finds it Downloading, Ready or Dirty
Truncated(st, new_size) ==
    IF st.status = "Downloading"
    THEN [st EXCEPT !.truncate = Min(IF @ = -1 THEN st.file_size ELSE @, new_size),
                    !.file_size = new_size,
                    !.file = SetLen(@, new_size),
                    !.rev = IF new_size = st.file_size THEN @ ELSE @ + 1,
                    !.woff = 0,
                    !.wlen = 0]
    ELSE [st EXCEPT !.file_size = new_size,
                    !.file = SetLen(@, new_size),
                    !.rev = IF new_size = st.file_size THEN @ ELSE @ + 1,
                    !.woff = 0,
                    !.wlen = 0]

TruncateLock(c) ==
    LET o == op[c]
        st == state[o.h] IN
    /\ Quiet
    /\ o.kind = "truncate" /\ o.pc = "lock"
    /\ IF st.status \in {"Downloading", "Ready", "Dirty"}
       THEN /\ state' = [state EXCEPT ![o.h] = Truncated(st, o.size)]
            /\ op' = [op EXCEPT ![c] = [Finish(o, "ok") EXCEPT !.pre = st.status,
                                                                !.was = st.file_size]]
       ELSE /\ op' = [op EXCEPT ![c] =
                   [o EXCEPT !.pc = "alloc", !.truncate = o.size, !.pre = st.status,
                             !.h = 0]]
            /\ UNCHANGED state
    /\ UNCHANGED <<files, download, upload, remote, now, nent, nops, nfaults, panicked, truncated, fsynced, plan, node>>

(* DiskCache::flush *)

FlushBegin(c, rid, block) ==
    LET h == Lookup(files, rid)
        o == [Start("flush", rid) EXCEPT !.h = h, !.block = block,
                                         !.rev = IF h = 0 THEN 0 ELSE state[h].rev,
                                         !.edits = Edits(rid),
                                         !.fsync = PrecedingFsync(rid)] IN
    /\ CanBegin(c)
    /\ Planned("flush", 0, 0, block)
    /\ files' = GetMut(files, rid)
    /\ Begun(c, IF h = 0 THEN Finish(o, "NotFound") ELSE [o EXCEPT !.pc = "lock"])
    /\ UNCHANGED <<state, download, upload, remote, now, nent, nfaults, panicked>>

\* a flush that launches the upload and returns Ok without waiting for it
LaunchNotBlocking(c) ==
    LET o == op[c] IN
    /\ CanStamp
    /\ state' = Launched(state, o.h)
    /\ upload' = Spawned(o.h)
    /\ now' = now + 1
    /\ op' = [op EXCEPT ![c] = [Finish(o, "ok") EXCEPT !.pre = state[o.h].status]]

\* file.upload(..) under the guard, then the first turn of the block loop (it
\* finds the Dirty status the launcher just set) or Ok
Launch(c) ==
    LET o == op[c] IN
    /\ CanStamp
    /\ state' = Launched(state, o.h)
    /\ upload' = Spawned(o.h)
    /\ now' = now + 1
    /\ op' = [op EXCEPT ![c] =
           IF o.block THEN [o EXCEPT !.pc = "wait_done", !.rx = now + 1,
                                     !.pre = state[o.h].status]
           ELSE [Finish(o, "ok") EXCEPT !.pre = state[o.h].status]]

\* a flush that leaves a Dirty entry to the upload launched before
FlushLockOnceLaunched(c) ==
    LET o == op[c]
        st == state[o.h] IN
    /\ Quiet
    /\ o.kind = "flush" /\ o.pc = "lock"
    /\ IF st.status = "DownloadFailed" THEN Refuse(c, "DownloadFailed")
       ELSE IF st.status \in {"Ready", "Invalidated"} THEN Refuse(c, "ok")
       ELSE IF st.status = "Downloading"
            THEN /\ op' = [op EXCEPT ![c].pc = "wait_download", ![c].waited = TRUE]
                 /\ UNCHANGED <<state, upload, now, panicked>>
       ELSE IF \E t \in Epochs : upload[t].kind = "upload" /\ upload[t].ent = o.h
            THEN Refuse(c, "ok")
       ELSE Launch(c) /\ UNCHANGED panicked
    /\ UNCHANGED <<files, download, remote, nent, nops, nfaults, truncated, fsynced, plan, node>>

FlushLock(c) ==
    LET o == op[c]
        st == state[o.h] IN
    /\ Quiet
    /\ o.kind = "flush" /\ o.pc = "lock"
    /\ IF st.status = "DownloadFailed" THEN Refuse(c, "DownloadFailed")
       ELSE IF st.status \in {"Ready", "Invalidated"} THEN Refuse(c, "ok")
       ELSE IF st.status = "Downloading"
            THEN /\ op' = [op EXCEPT ![c].pc = "wait_download", ![c].waited = TRUE]
                 /\ UNCHANGED <<state, upload, now, panicked>>
       ELSE Launch(c) /\ UNCHANGED panicked
    /\ UNCHANGED <<files, download, remote, nent, nops, nfaults, truncated, fsynced, plan, node>>

\* the download quiesced (tx dropped): the guard is taken again and the
\* launcher runs
FlushRelock(c) ==
    /\ Quiet
    /\ op[c].kind = "flush" /\ op[c].pc = "wait_download"
    /\ TxClosed(op[c].h)
    /\ Launch(c)
    /\ UNCHANGED <<files, download, remote, nent, nops, nfaults, panicked, truncated, fsynced, plan, node>>

\* done_rx.changed() fails: done_tx is dropped; Ok when it holds true
FlushWake(c) ==
    LET o == op[c] IN
    /\ Quiet
    /\ o.kind = "flush" /\ o.pc = "wait_done"
    /\ DoneClosed(o.rx)
    /\ op' = [op EXCEPT ![c] =
           IF upload[o.rx].done THEN Finish(o, "ok")
           ELSE [o EXCEPT !.pc = "loop", !.guard = "none"]]
    /\ UNCHANGED <<files, state, download, upload, remote, now, nent, nops, nfaults,
                   panicked, truncated, fsynced, plan, node>>

\* the next turn of the block loop, under the guard
FlushLoop(c) ==
    LET o == op[c]
        st == state[o.h] IN
    /\ Quiet
    /\ o.kind = "flush" /\ o.pc = "loop"
    /\ op' = [op EXCEPT ![c] =
           IF st.status = "Downloading" THEN Finish(o, "panic")
           ELSE IF st.status = "DownloadFailed" THEN Finish(o, "DownloadFailed")
           ELSE IF st.status \in {"Invalidated", "Ready"} THEN Finish(o, "ok")
           ELSE [o EXCEPT !.pc = "wait_done", !.rx = st.lock_mtime]]
    /\ panicked' = IF st.status = "Downloading" THEN "flush_unreachable" ELSE panicked
    /\ UNCHANGED <<files, state, download, upload, remote, now, nent, nops, nfaults, truncated, fsynced, plan, node>>

-----------------------------------------------------------------------------
Offsets == 0..(MaxSize - 1)
ReadSizes == {0, 1, Unbounded}
Sizes == 0..MaxSize

Next ==
    \/ \E t \in Epochs : UploadCheck(t)
    \/ \E t \in Epochs : UploadRead(t)
    \/ \E t \in Epochs : UploadEdit(t)
    \/ \E t \in Epochs : UploadFinal(t)
    \/ \E e \in Ents : DownloadError(e)
    \/ \E e \in Ents : DownloadEnd(e)
    \/ \E e \in Ents : \E n \in 1..MaxChunk : DownloadChunk(e, n)
    \/ \E e \in Ents : DownloadFinal(e)
    \/ \E c \in Callers, rid \in Rids, offset \in 0..MaxSize, size \in ReadSizes :
          ReadBegin(c, rid, offset, size)
    \/ \E c \in Callers : ReadLock(c)
    \/ \E c \in Callers : ReadWake(c)
    \/ \E c \in Callers : ReadRelock(c)
    \/ \E c \in Callers, rid \in Rids, offset \in Offsets, len \in 1..MaxSize :
          WriteBegin(c, rid, offset, len)
    \/ \E c \in Callers : WriteLock(c)
    \/ \E c \in Callers : WriteRelock(c)
    \/ \E c \in Callers, rid \in Rids : OpenBegin(c, rid)
    \/ \E c \in Callers, rid \in Rids : RemoveBegin(c, rid)
    \/ \E c \in Callers, rid \in Rids : DeleteBegin(c, rid)
    \/ \E c \in Callers : DeleteMessages(c)
    \/ \E c \in Callers, rid \in Rids, new_size \in Sizes : TruncateBegin(c, rid, new_size)
    \/ \E c \in Callers : TruncateLock(c)
    \/ \E c \in Callers, rid \in Rids, block \in BOOLEAN : FlushBegin(c, rid, block)
    \/ \E c \in Callers : FlushLock(c)
    \/ \E c \in Callers : FlushRelock(c)
    \/ \E c \in Callers : FlushWake(c)
    \/ \E c \in Callers : FlushLoop(c)
    \/ \E c \in Callers : AllocMessages(c)
    \/ \E c \in Callers : TryAllocAndFetch(c)
    \/ \E c \in Callers : InsertEmpty(c)
    \/ \E c \in Callers : Invalidate(c)
    \/ \E c \in Callers : UploadEmptyFile(c)
    \/ \E c \in Callers : Return(c)

Spec == Init /\ [][Next]_vars

-----------------------------------------------------------------------------
(* Claims *)

\* the entry the table maps its rid to
Tabled(e) == state[e].status # "None" /\ Lookup(files, state[e].remote_id) = e

\* bytes [0, file_size) of the backing file
Content(e) == SubSeq(state[e].file, 1, Min(state[e].file_size, Len(state[e].file)))

\* caller c stands at the return of an operation of this kind
Returned(c, kind) == op[c].kind = kind /\ op[c].pc = "done"

\* C1: in every reachable state an entry of the table whose status is Ready
\* holds, in bytes [0, file_size) of its backing file, the content committed
\* last to the remote from it (the downloaded content when nothing was
\* committed), whatever the interleaving of write, truncate, flush and the
\* upload task.
C1_ReadyMatchesRemote ==
    \A e \in Ents :
        (Tabled(e) /\ state[e].status = "Ready") => Content(e) = state[e].committed

\* C2: an upload task that a write raced (the write completed after the task
\* read its buffer and before its edit_message returned) does not move the
\* entry to Ready when it completes.
C2_RacedUploadStaysDirty ==
    [][\A t \in Epochs :
          (upload[t].pc = "final" /\ upload[t].raced /\ upload'[t].pc # "final")
              => state'[upload[t].ent].status # "Ready"]_vars

\* C3: a truncate that changes the size of an entry it finds Ready or Dirty
\* returns with file_size = new_size and the entry Dirty.
C3_TruncateLeavesDirty ==
    \A c \in Callers :
        (Returned(c, "truncate") /\ op[c].res = "ok" /\ op[c].pre \in {"Ready", "Dirty"}
            /\ op[c].was # op[c].size)
            => /\ state[op[c].h].file_size = op[c].size
               /\ state[op[c].h].status = "Dirty"

\* C4: when a blocking flush returns Ok on an entry that is not Invalidated, an
\* edit_message carrying every write and truncate that completed on the entry
\* before the flush began has succeeded.
C4_FsyncCommitsEarlierEdits ==
    \A c \in Callers :
        (Returned(c, "flush") /\ op[c].block /\ op[c].res = "ok"
            /\ state[op[c].h].status # "Invalidated")
            => state[op[c].h].crev >= op[c].rev

\* C5: a blocking flush whose awaited upload failed (its done channel closed
\* without true, the entry still Dirty at that lock_mtime) returns an error at
\* its next step instead of waiting again.
C5_FsyncSurfacesFailure ==
    [][\A c \in Callers :
          (/\ op[c].kind = "flush" /\ op[c].pc = "loop"
           /\ state[op[c].h].status = "Dirty"
           /\ state[op[c].h].lock_mtime = op[c].rx
           /\ op'[c] # op[c])
              => (op'[c].pc = "done" /\ op'[c].res \notin {"ok", "panic"})]_vars

\* C6: an entry whose status is DownloadFailed keeps that status.
C6_DownloadFailedIsFinal ==
    [][\A e \in Ents :
          state[e].status = "DownloadFailed" => state'[e].status = "DownloadFailed"]_vars

\* C7: an entry whose status is Invalidated keeps that status.
C7_InvalidatedIsTerminal ==
    [][\A e \in Ents :
          state[e].status = "Invalidated" => state'[e].status = "Invalidated"]_vars

\* C8: a read or a write served on an entry whose status is Invalidated returns
\* the error Invalidated, whatever its offset and size.
C8_InvalidatedRefusesAll ==
    \A c \in Callers :
        ((Returned(c, "read") \/ Returned(c, "write")) /\ op[c].pre = "Invalidated")
            => op[c].res = "Invalidated"

\* C9: in no reachable state does the table map a rid to the entry an insert
\* put in place of another while the replaced entry is not Invalidated.
C9_InvalidatedBeforeReplaced ==
    \A c \in Callers :
        (op[c].pc = "invalidate" /\ Lookup(files, op[c].rid) # op[c].old)
            => state[op[c].old].status = "Invalidated"

\* C10: a read(0, unbounded) that follows a truncate(rid, n) which returned Ok,
\* with no operation in between, returns exactly n bytes when it returns data.
C10_TruncateThenReadAll ==
    \A c \in Callers :
        (Returned(c, "read") /\ op[c].after # -1 /\ op[c].offset = 0
            /\ op[c].size = Unbounded /\ op[c].res = "ok")
            => Len(op[c].out) = op[c].after

\* C11: a read served on an entry that is Downloading, Ready or Dirty returns
\* Ok with exactly max(0, min(offset + size, file_size) - offset) bytes,
\* file_size being the one the entry has when the read is served; it never
\* panics on end - offset.
C11_ReadReturnsClampedRange ==
    \A c \in Callers :
        (Returned(c, "read") /\ op[c].h # 0
            /\ op[c].pre \in {"Downloading", "Ready", "Dirty"})
            => /\ op[c].res = "ok"
               /\ Len(op[c].out) =
                      Max(0, Min(op[c].offset + op[c].size, state[op[c].h].file_size)
                                - op[c].offset)

\* the bytes a write of len bytes stores
Data(len) == [i \in 1..len |-> WriteByte]

\* C12: a write that finds the entry Ready or Dirty returns with the entry
\* Dirty, file_size = max(old file_size, offset + len) and the bytes stored at
\* [offset, offset + len); as long as no write or truncate follows on the entry
\* and it is Ready or Dirty, the range holds the data and a read of it returns
\* the data.
C12_WriteThenReadBack ==
    /\ \A c \in Callers :
          (Returned(c, "write") /\ op[c].res = "ok")
              => /\ op[c].pre \in {"Ready", "Dirty"}
                 /\ state[op[c].h].status = "Dirty"
                 /\ state[op[c].h].file_size = Max(op[c].was, op[c].offset + op[c].size)
                 /\ ReadExact(state[op[c].h].file, op[c].offset,
                              op[c].offset + op[c].size) = Data(op[c].size)
    /\ \A e \in Ents :
          (state[e].status \in {"Ready", "Dirty"} /\ state[e].wlen > 0)
              => /\ state[e].file_size >= state[e].woff + state[e].wlen
                 /\ ReadExact(state[e].file, state[e].woff,
                              state[e].woff + state[e].wlen) = Data(state[e].wlen)
    /\ \A c \in Callers :
          (Returned(c, "read") /\ op[c].h # 0 /\ op[c].pre \in {"Ready", "Dirty"}
              /\ state[op[c].h].wlen > 0
              /\ op[c].offset = state[op[c].h].woff
              /\ op[c].size = state[op[c].h].wlen)
              => op[c].res = "ok" /\ op[c].out = Data(op[c].size)

\* a read returned the bytes of the last write on a Ready or Dirty entry
C12_Witness ==
    \E c \in Callers :
        /\ Returned(c, "read") /\ op[c].h # 0 /\ op[c].pre \in {"Ready", "Dirty"}
        /\ state[op[c].h].wlen > 0
        /\ op[c].offset = state[op[c].h].woff
        /\ op[c].size = state[op[c].h].wlen
        /\ op[c].res = "ok" /\ op[c].out = Data(op[c].size)

\* the upload tasks of entry e whose edit_message carried the content e has now
FinalEdits(e) ==
    {t \in Epochs : upload[t].ent = e /\ upload[t].sent /\ upload[t].buf = Content(e)}

\* C13: whenever an entry is Ready after a write (with no truncate after it),
\* exactly one edit_message carrying its final content was issued.
C13_OneEditOfFinalContent ==
    \A e \in Ents :
        (state[e].status = "Ready" /\ state[e].wlen > 0)
            => Cardinality(FinalEdits(e)) = 1

\* C15: of two consecutive blocking flushes on one rid that return Ok, with no
\* operation between them, at most one edit_message is issued from the
\* beginning of the first to the return of the second.
C15_FsyncTwiceOneEdit ==
    \A c \in Callers :
        (Returned(c, "flush") /\ op[c].block /\ op[c].res = "ok" /\ op[c].fsync # -1)
            => Edits(op[c].rid) - op[c].fsync <= 1

\* upload task t takes its final step
Finishes(t) == upload[t].kind = "upload" /\ upload[t].pc = "final" /\ upload'[t].pc # "final"

\* C16: an entry goes from Dirty to Ready only in the final step of an upload
\* task whose lock_mtime is the entry's; a task that finds another lock_mtime
\* or another status in its final step leaves the entry as it is and does not
\* send true on its done channel.
C16_ReadyOnlyByCurrentEpoch ==
    [][/\ \A e \in Ents :
            (state[e].status = "Dirty" /\ state'[e].status = "Ready")
                => \E t \in Epochs : /\ Finishes(t)
                                     /\ upload[t].ent = e
                                     /\ state[e].lock_mtime = t
                                     /\ upload'[t].done
       /\ \A t \in Epochs :
            (Finishes(t) /\ ~IsUpToDate(t))
                => /\ state'[upload[t].ent] = state[upload[t].ent]
                   /\ ~upload'[t].done]_vars

\* an entry is Ready by the task of its epoch, and a task of an older epoch of
\* the same entry has issued its edit_message and was suppressed
C16_Witness ==
    \E t, u \in Epochs :
        /\ upload[t].kind = "upload" /\ upload[t].done
        /\ state[upload[t].ent].status = "Ready"
        /\ upload[u].kind = "upload" /\ upload[u].ent = upload[t].ent
        /\ upload[u].sent /\ upload[u].pc = "closed"

\* the bytes a Downloading entry still takes from the remote: its pending
\* truncate, or its file_size when none is pending
Cap(st) == IF st.truncate = -1 THEN st.file_size ELSE st.truncate

\* caller c applies its truncate to entry e in this step
Truncates(c, e) ==
    /\ op[c].kind = "truncate" /\ op[c].pc = "lock" /\ op[c].h = e
    /\ op'[c].pc = "done"

\* C18: a truncate that finds the entry Downloading leaves it Downloading with
\* file_size = new_size and its pending truncate = min(the previous one, or
\* the previous file_size when none, new_size), and starts no upload; while an
\* entry is Downloading the bytes still to download never increase and never
\* exceed file_size, and the downloader's assertion never fails.
C18_TruncateWhileDownloading ==
    /\ [][\A e \in Ents :
            state[e].status = "Downloading"
                => /\ \A c \in Callers :
                        Truncates(c, e)
                            => /\ state'[e].status = "Downloading"
                               /\ state'[e].file_size = op[c].size
                               /\ state'[e].truncate = Min(Cap(state[e]), op[c].size)
                               /\ upload' = upload
                   /\ state'[e].status = "Downloading"
                        => /\ Cap(state'[e]) <= Cap(state[e])
                           /\ Cap(state'[e]) <= state'[e].file_size]_vars
    /\ [](panicked # "download_assert")
    /\ [](\A e \in Ents : state[e].status = "Downloading"
                               => Cap(state[e]) <= state[e].file_size)

\* a truncate found the entry Downloading with a truncate pending and grew the
\* file: the pending truncate stays below the new file_size
C18_Witness ==
    \E c \in Callers :
        /\ Returned(c, "truncate") /\ op[c].res = "ok" /\ op[c].pre = "Downloading"
        /\ state[op[c].h].status = "Downloading"
        /\ state[op[c].h].truncate # -1
        /\ state[op[c].h].truncate < state[op[c].h].file_size

\* entry e is Downloading with no pending truncate and only its download task
\* holds it: the table, the callers and the upload tasks do not
Orphaned(e) ==
    /\ state[e].status = "Downloading" /\ state[e].truncate = -1
    /\ StrongCount(e) = 1
    /\ download[e].pc = "run"

\* the download task of e returned at a chunk boundary and left it Downloading
Abandoned(e) ==
    /\ state[e].status = "Downloading" /\ state[e].truncate = -1
    /\ StrongCount(e) = 1
    /\ download[e].pc = "done"

\* the download task of e handles a chunk in this step
ChunkHandled(e) ==
    /\ download[e].pc = "run" /\ download'[e] # download[e]
    /\ download'[e].pc # "final"
    /\ nfaults' = nfaults

\* C19: once a Downloading entry with no pending truncate is held by its
\* download task alone, the next chunk makes the task return; unless the remote
\* fails, the entry's state (bytes and status) never changes again and no
\* upload task is ever started for it.  While the table, a caller or an upload
\* task holds the entry, each chunk is written and published, up to Ready.
C19_OrphanedDownloadStops ==
    [][\A e \in Ents :
        /\ (Orphaned(e) /\ nfaults' = nfaults)
              => /\ state'[e] = state[e]
                 /\ Orphaned(e)' \/ Abandoned(e)'
                 /\ ChunkHandled(e) => Abandoned(e)'
        /\ Abandoned(e) => state'[e] = state[e] /\ Abandoned(e)'
        /\ (Orphaned(e) \/ Abandoned(e))
              => \A t \in Epochs :
                    (upload[t].ent = e \/ upload'[t].ent = e) => upload'[t] = upload[t]
        /\ ( /\ state[e].status = "Downloading" /\ state[e].truncate = -1
             /\ StrongCount(e) # 1
             /\ ChunkHandled(e) )
              => /\ state'[e].status \in {"Downloading", "Ready"}
                 /\ state'[e].available_size > download[e].pos
                 /\ SubSeq(state'[e].file, 1, state'[e].available_size)
                        = SubSeq(download[e].media, 1, state'[e].available_size)
                 /\ state'[e].status = "Downloading" => download'[e].pc = "run"]_vars

\* a download was abandoned half way: a prefix is on disk, the rest never comes
C19_Witness ==
    \E e \in Ents :
        /\ Abandoned(e)
        /\ state[e].available_size > 0
        /\ state[e].available_size < state[e].file_size

\* C20: a read that is served while the status is Downloading returns bytes
\* of [0, available_size) only, and they are the bytes of the remote message
\* at that range.
C20_ReadWithinAvailablePrefix ==
    \A c \in Callers :
        ( /\ Returned(c, "read") /\ op[c].h # 0
          /\ op[c].pre = "Downloading" /\ op[c].res = "ok"
          /\ Len(op[c].out) > 0 )
            => /\ op[c].offset + Len(op[c].out) <= state[op[c].h].available_size
               /\ download[op[c].h].pc = "run"
                    => op[c].out = ReadExact(download[op[c].h].media, op[c].offset,
                                             op[c].offset + Len(op[c].out))

\* a read is served from the prefix while the rest is still to come
C20_Witness ==
    \E c \in Callers :
        /\ Returned(c, "read") /\ op[c].h # 0
        /\ op[c].pre = "Downloading" /\ op[c].res = "ok"
        /\ Len(op[c].out) > 0
        /\ state[op[c].h].available_size < state[op[c].h].file_size

-----------------------------------------------------------------------------
(* The round trip: one caller after the other, through the remote *)

\* create, write len bytes at 0, fsync, evict, reopen, read them back
RoundTrip(len) ==
    << Step("open", 0, 0, FALSE), Step("write", 0, len, FALSE),
       Step("flush", 0, 0, TRUE), Step("remove", 0, 0, FALSE),
       Step("open", 0, 0, FALSE), Step("read", 0, len, FALSE) >>

\* the remote holds the placeholder of a file created empty
InitRoundTrip ==
    /\ files = <<>>
    /\ state = [e \in Ents |-> NoState]
    /\ download = [e \in Ents |-> NoDownload]
    /\ upload = [t \in Epochs |-> NoUpload]
    /\ op = [c \in Callers |-> Idle]
    /\ remote = [rid \in Rids |-> Placeholder]
    /\ now = 0
    /\ nent = 0
    /\ nops = 0
    /\ nfaults = 0
    /\ panicked = "none"
    /\ truncated = [rid \in Rids |-> -1]
    /\ fsynced = [rid \in Rids |-> -1]
    /\ plan \in {RoundTrip(len) : len \in 1..MaxSize}
    /\ node = [rid \in Rids |-> Stored(remote[rid])]

NextRoundTrip ==
    \/ \E t \in Epochs : UploadCheck(t)
    \/ \E t \in Epochs : UploadRead(t)
    \/ \E t \in Epochs : UploadEdit(t)
    \/ \E t \in Epochs : UploadFinal(t)
    \/ \E e \in Ents : DownloadError(e)
    \/ \E e \in Ents : DownloadEnd(e)
    \/ \E e \in Ents : \E n \in 1..MaxChunk : DownloadChunk(e, n)
    \/ \E e \in Ents : DownloadFinal(e)
    \/ \E c \in Callers, rid \in Rids, size \in 1..MaxSize : ReadBegin(c, rid, 0, size)
    \/ \E c \in Callers : ReadLock(c)
    \/ \E c \in Callers : ReadWake(c)
    \/ \E c \in Callers : ReadRelock(c)
    \/ \E c \in Callers, rid \in Rids, len \in 1..MaxSize : WriteBegin(c, rid, 0, len)
    \/ \E c \in Callers : WriteLock(c)
    \/ \E c \in Callers, rid \in Rids : OpenBegin(c, rid)
    \/ \E c \in Callers, rid \in Rids : RemoveBegin(c, rid)
    \/ \E c \in Callers, rid \in Rids : FlushBegin(c, rid, TRUE)
    \/ \E c \in Callers : FlushLock(c)
    \/ \E c \in Callers : FlushWake(c)
    \/ \E c \in Callers : FlushLoop(c)
    \/ \E c \in Callers : AllocMessages(c)
    \/ \E c \in Callers : TryAllocAndFetch(c)
    \/ \E c \in Callers : InsertEmpty(c)
    \/ \E c \in Callers : Return(c)

SpecRoundTrip == InitRoundTrip /\ [][NextRoundTrip]_vars

\* C14: when the last step of the round trip, the read of len bytes at 0 from
\* the reopened entry, returns Ok, it returns the len bytes that were written;
\* and it does return Ok when the remote never failed.
C14_RoundTrip ==
    \A c \in Callers :
        (Returned(c, "read") /\ nops = Len(plan))
            => /\ nfaults = 0 => op[c].res = "ok"
               /\ op[c].res = "ok" => op[c].out = Data(op[c].size)

\* the read returned Ok from the entry the reopening downloaded
C14_Witness ==
    \E c \in Callers :
        /\ Returned(c, "read") /\ nops = Len(plan)
        /\ op[c].res = "ok" /\ op[c].size = MaxSize
        /\ download[op[c].h].pc = "done"
        /\ op[c].out = Data(MaxSize)

-----------------------------------------------------------------------------
(* A truncate during the download, on a remote that does not fail *)

\* open the document, truncate it below its size, read
TruncatePlans ==
    { << Step("open", 0, 0, FALSE), Step("truncate", 0, n, FALSE),
         Step("read", offset, size, FALSE) >> :
        n \in 0..(MaxSize - 1), offset \in Offsets, size \in {1, Unbounded} }

\* the remote holds the document, and every request to it succeeds
InitTruncate ==
    /\ files = <<>>
    /\ state = [e \in Ents |-> NoState]
    /\ download = [e \in Ents |-> NoDownload]
    /\ upload = [t \in Epochs |-> NoUpload]
    /\ op = [c \in Callers |-> Idle]
    /\ remote = [rid \in Rids |-> Document(InitialData)]
    /\ now = 0
    /\ nent = 0
    /\ nops = 0
    /\ nfaults = MaxFaults
    /\ panicked = "none"
    /\ truncated = [rid \in Rids |-> -1]
    /\ fsynced = [rid \in Rids |-> -1]
    /\ plan \in TruncatePlans
    /\ node = [rid \in Rids |-> Stored(remote[rid])]

\* the steps of the download task, of the upload tasks, and of the callers
DownloadSteps == \E e \in Ents : \E n \in 1..MaxChunk : DownloadChunk(e, n)

UploadSteps ==
    \/ \E t \in Epochs : UploadCheck(t)
    \/ \E t \in Epochs : UploadRead(t)
    \/ \E t \in Epochs : UploadEdit(t)
    \/ \E t \in Epochs : UploadFinal(t)

CallerSteps ==
    \/ \E c \in Callers, rid \in Rids : OpenBegin(c, rid)
    \/ \E c \in Callers : AllocMessages(c)
    \/ \E c \in Callers : TryAllocAndFetch(c)
    \/ \E c \in Callers, rid \in Rids, new_size \in Sizes : TruncateBegin(c, rid, new_size)
    \/ \E c \in Callers : TruncateLock(c)
    \/ \E c \in Callers, rid \in Rids, offset \in Offsets, size \in ReadSizes :
          ReadBegin(c, rid, offset, size)
    \/ \E c \in Callers : ReadLock(c)
    \/ \E c \in Callers : ReadWake(c)
    \/ \E c \in Callers : ReadRelock(c)
    \/ \E c \in Callers : Return(c)

NextTruncate == DownloadSteps \/ UploadSteps \/ CallerSteps

\* spawned tasks and callers are scheduled: each takes its next step
SpecTruncate ==
    /\ InitTruncate /\ [][NextTruncate]_vars
    /\ WF_vars(DownloadSteps) /\ WF_vars(UploadSteps) /\ WF_vars(CallerSteps)

\* a truncate to n has just found entry e Downloading
TruncatedWhileDownloading(e, n) ==
    /\ \E c \in Callers :
          /\ Returned(c, "truncate") /\ op[c].res = "ok" /\ op[c].pre = "Downloading"
          /\ op[c].h = e /\ op[c].size = n
    /\ state[e].status = "Downloading"
    /\ n < Len(download[e].media)

\* entry e is Ready with n bytes, and an edit_message carried the first n bytes
\* of the document and is what the remote holds
ReadyAndEdited(e, n) ==
    /\ state[e].status = "Ready" /\ state[e].file_size = n
    /\ Content(e) = SubSeq(InitialData, 1, n)
    /\ \E t \in Epochs :
          /\ upload[t].ent = e /\ upload[t].sent
          /\ upload[t].buf = SubSeq(InitialData, 1, n)
    /\ remote[state[e].remote_id] = Document(Payload(SubSeq(InitialData, 1, n)))

-----------------------------------------------------------------------------
(* Readers of a download: the callers are scheduled, the remote delivers the
   chunks when it pleases *)

InitReaders ==
    /\ files = <<>>
    /\ state = [e \in Ents |-> NoState]
    /\ download = [e \in Ents |-> NoDownload]
    /\ upload = [t \in Epochs |-> NoUpload]
    /\ op = [c \in Callers |-> Idle]
    /\ remote = [rid \in Rids |-> Document(InitialData)]
    /\ now = 0
    /\ nent = 0
    /\ nops = 0
    /\ nfaults = MaxFaults
    /\ panicked = "none"
    /\ truncated = [rid \in Rids |-> -1]
    /\ fsynced = [rid \in Rids |-> -1]
    /\ plan = <<>>
    /\ node = [rid \in Rids |-> Stored(remote[rid])]

ReaderSteps ==
    \/ \E c \in Callers, rid \in Rids : OpenBegin(c, rid)
    \/ \E c \in Callers : AllocMessages(c)
    \/ \E c \in Callers : TryAllocAndFetch(c)
    \/ \E c \in Callers, rid \in Rids, offset \in 0..MaxSize, size \in ReadSizes :
          ReadBegin(c, rid, offset, size)
    \/ \E c \in Callers : ReadLock(c)
    \/ \E c \in Callers : ReadWake(c)
    \/ \E c \in Callers : ReadRelock(c)
    \/ \E c \in Callers : Return(c)

NextReaders == DownloadSteps \/ ReaderSteps

SpecReaders == InitReaders /\ [][NextReaders]_vars /\ WF_vars(ReaderSteps)

\* caller c waits in a read of [offset, offset + size)
Waiting(c, offset, size) ==
    /\ op[c].kind = "read" /\ op[c].pc = "wait"
    /\ op[c].offset = offset /\ op[c].size = size

\* C21: a read waiting on a download goes on waiting while less than
\* offset + size bytes are published and the download task runs; once that
\* many bytes are published it returns the bytes of the document in
\* [offset, offset + size), whether or not the download ever goes further.
C21_WaitingReadServedFromPrefix ==
    /\ [][\A c \in Callers :
            ( /\ op[c].kind = "read" /\ op[c].pc = "wait"
              /\ download[op[c].h].pc = "run"
              /\ state[op[c].h].available_size < op[c].offset + op[c].size )
                => op'[c].pc = "wait"]_vars
    /\ \A c \in Callers : \A offset \in Offsets : \A size \in 1..(MaxSize - offset) :
          ( Waiting(c, offset, size)
            /\ state[op[c].h].available_size >= offset + size )
              ~> ( /\ Returned(c, "read") /\ op[c].res = "ok"
                   /\ op[c].offset = offset /\ op[c].size = size
                   /\ op[c].out = ReadExact(InitialData, offset, offset + size) )

\* a waiting read has its bytes published while the rest is still to come
C21_Witness ==
    \E c \in Callers :
        /\ op[c].kind = "read" /\ op[c].pc = "wait" /\ op[c].size > 0
        /\ state[op[c].h].status = "Downloading"
        /\ state[op[c].h].available_size >= op[c].offset + op[c].size
        /\ state[op[c].h].available_size < state[op[c].h].file_size

\* C22: a write that finds the entry Downloading does nothing until the
\* download task has exited (tx dropped); no write changes an entry whose
\* download task is alive.  When the write goes on and finds the download
\* ended Ready or Dirty, it writes its bytes over the content it finds (the
\* downloaded document when nothing else modified the entry), sets
\* file_size = max(file_size, offset + len) and leaves the entry Dirty.
C22_WriteWaitsForDownload ==
    [][\A c \in Callers :
         LET o == op[c]
             e == o.h
         IN  o.kind = "write" =>
               /\ (o.pc = "wait" /\ ~TxClosed(e)) => op'[c].pc = "wait"
               /\ (op'[c].pc # o.pc /\ state' # state)
                     => TxClosed(e) /\ state[e].status # "Downloading"
               /\ (o.pc = "wait" /\ op'[c].pc # o.pc /\ state[e].status \in {"Ready", "Dirty"})
                     => /\ op'[c].pc = "done" /\ op'[c].res = "ok"
                        /\ state'[e].status = "Dirty"
                        /\ state'[e].file = WriteAll(state[e].file, o.offset, Data(o.size))
                        /\ state'[e].file_size = Max(state[e].file_size, o.offset + o.size)
                        /\ (state[e].status = "Ready" /\ state[e].rev = 0)
                              => state[e].file = state[e].committed]_vars

\* a write that waited for the download returned Ok on top of the document
C22_Witness ==
    \E c \in Callers :
        /\ Returned(c, "write") /\ op[c].res = "ok" /\ op[c].waited
        /\ op[c].pre = "Ready"
        /\ state[op[c].h].status = "Dirty"
        /\ state[op[c].h].file = WriteAll(InitialData, op[c].offset, Data(op[c].size))

\* C23: in every reachable state the value published on the available_size
\* channel of an entry is at most its file_size.
C23_AvailableWithinFileSize ==
    \A e \in Ents :
        state[e].status # "None" => state[e].available_size <= state[e].file_size

\* C24: no step taken while an entry is Downloading, the step that completes
\* the download included, lowers the value published on its available_size
\* channel.
C24_AvailableMonotonic ==
    [][\A e \in Ents :
         state[e].status = "Downloading"
            => state'[e].available_size >= state[e].available_size]_vars

\* C25: a flush of an absent rid returns NotFound; a flush that finds the
\* entry Ready or Invalidated returns Ok and changes neither an entry nor an
\* upload task; a flush that waited for the download launches an upload when
\* it finds the entry Dirty, and otherwise changes neither an entry nor an
\* upload task.
C25_FlushByStatus ==
    [][\A c \in Callers :
         LET o == op[c]
             e == o.h
         IN  (o.kind = "flush" /\ op'[c].pc # o.pc) =>
               /\ (o.pc = "done" /\ e = 0) => o.res = "NotFound"
               /\ (o.pc = "lock" /\ state[e].status \in {"Ready", "Invalidated"})
                     => /\ op'[c].pc = "done" /\ op'[c].res = "ok"
                        /\ state' = state /\ upload' = upload
               /\ (o.pc = "wait_download" /\ state[e].status = "Dirty")
                     => /\ upload'[now + 1].kind = "upload" /\ upload'[now + 1].ent = e
                        /\ state'[e].status = "Dirty"
               /\ (o.pc = "wait_download" /\ state[e].status # "Dirty")
                     => state' = state /\ upload' = upload]_vars

\* C26: the step in which the download task of a Downloading entry gives up
\* (the stream failed, or ended short) leaves the entry DownloadFailed, and a
\* read or write that waited on that download and returns after it returns
\* DownloadFailed.
C26_DownloadFailureReachesWaiters ==
    /\ [][\A e \in Ents :
            (state[e].status = "Downloading" /\ ~download[e].failed /\ download'[e].failed)
                => state'[e].status = "DownloadFailed"]_vars
    /\ [](\A c \in Callers :
            ( /\ Returned(c, "read") \/ Returned(c, "write")
              /\ op[c].h # 0 /\ op[c].waited
              /\ download[op[c].h].failed )
                => op[c].res = "DownloadFailed")

\* the upload task t gives up in this step: its upload_stream or edit_message
\* failed
UploadFails(t) == ~upload[t].failed /\ upload'[t].failed

\* C27: the step in which an upload task fails changes no entry (a Dirty
\* entry stays Dirty with its bytes and file_size) and not the remote; a read
\* that finds the entry Dirty returns Ok with bytes [offset, min(offset +
\* size, file_size)) of the backing file; a flush that finds the entry Dirty
\* launches a new upload task.
C27_UploadFailureLeavesDirty ==
    [][/\ \A t \in Epochs : UploadFails(t) => state' = state /\ remote' = remote
       /\ \A c \in Callers :
            LET o == op[c]
                st == state[o.h]
            IN  /\ ( /\ o.kind = "read" /\ o.pc = "lock" /\ op'[c].pc # o.pc
                      /\ st.status = "Dirty" )
                      => /\ op'[c].pc = "done" /\ op'[c].res = "ok"
                         /\ op'[c].out = ReadExact(st.file, o.offset,
                                Max(o.offset, Min(o.offset + o.size, st.file_size)))
                /\ ( /\ o.kind = "flush" /\ o.pc = "lock" /\ op'[c].pc # o.pc
                      /\ st.status = "Dirty" )
                      => /\ upload'[now + 1].kind = "upload"
                         /\ upload'[now + 1].ent = o.h
                         /\ upload'[now + 1].pc = "check1"
                         /\ state'[o.h].status = "Dirty"
                         /\ state'[o.h].lock_mtime = now + 1]_vars

\* an upload failed and the upload a later flush launched went through
C27_Witness ==
    \E t, u \in Epochs : \E c \in Callers :
        /\ upload[t].failed /\ upload[u].sent /\ t < u
        /\ upload[u].ent = upload[t].ent
        /\ Returned(c, "flush") /\ op[c].h = upload[t].ent /\ op[c].pre = "Dirty"

\* C28: when a truncate to n that found the entry of rid DownloadFailed or
\* Invalidated returns Ok, the table maps rid to an entry that is Downloading
\* with a pending truncate, or Ready, and whose file_size is n.
C28_TruncateReplacesFailedEntry ==
    \A c \in Callers :
        ( /\ Returned(c, "truncate") /\ op[c].res = "ok"
          /\ op[c].pre \in {"DownloadFailed", "Invalidated"} )
            => LET e == Lookup(files, op[c].rid) IN
               /\ e # 0
               /\ \/ state[e].status = "Downloading" /\ state[e].truncate # -1
                  \/ state[e].status = "Ready"
               /\ state[e].file_size = op[c].size

\* the open of caller c takes a step
Opens(c) == op[c].kind = "open" /\ op'[c].pc # op[c].pc /\ op[c].pc \notin {"idle", "done"}

\* the entries and download tasks other than entry e are left as they are
OnlyEntry(e) ==
    /\ \A d \in Ents \ {e} : state'[d] = state[d] /\ download'[d] = download[d]
    /\ nent' = e

\* C29: an open of a rid the table does not hold classifies the message
\* (missing: NotFound, neither empty nor a document: MediaInvalid, a failed
\* request: an error) and on these failures changes neither the table nor an
\* entry nor a download task; for an empty message it admits one new entry,
\* Ready with file_size 0 and no download task; for a document it admits one
\* new entry, Downloading with no pending truncate and file_size = the size
\* of the media, and starts its download task, and only that one.
C29_OpenAdmitsOneEntry ==
    [][\A c \in Callers :
         LET o == op[c]
             e == nent + 1
         IN  Opens(c) =>
               /\ o.pc = "alloc"
                     => /\ files' = files /\ state' = state /\ download' = download
                        /\ nfaults' # nfaults => op'[c].pc = "done" /\ op'[c].res = "RemoteError"
                        /\ (nfaults' = nfaults /\ remote[o.rid].kind = "missing")
                              => op'[c].pc = "done" /\ op'[c].res = "NotFound"
                        /\ (nfaults' = nfaults /\ remote[o.rid].kind = "other")
                              => op'[c].pc = "done" /\ op'[c].res = "MediaInvalid"
                        /\ (nfaults' = nfaults /\ remote[o.rid].kind = "empty")
                              => op'[c].pc = "insert_empty"
                        /\ (nfaults' = nfaults /\ remote[o.rid].kind = "document")
                              => op'[c].pc = "fetch" /\ op'[c].media = remote[o.rid].data
               /\ o.pc = "insert_empty"
                     => /\ OnlyEntry(e)
                        /\ Lookup(files', o.rid) = e
                        /\ state'[e].status = "Ready" /\ state'[e].file_size = 0
                        /\ download'[e].pc = "none"
               /\ (o.pc = "fetch" /\ Lookup(files, o.rid) = 0)
                     => /\ OnlyEntry(e)
                        /\ Lookup(files', o.rid) = e
                        /\ state'[e].status = "Downloading" /\ state'[e].truncate = -1
                        /\ state'[e].file_size = Len(o.media)
                        /\ download'[e].pc = "run" /\ download'[e].pos = 0
                        /\ download'[e].media = o.media
                        /\ op'[c].pc = "done" /\ op'[c].res = "ok"
               /\ (op'[c].pc = "done" /\ op'[c].res # "ok")
                     => files' = files /\ state' = state /\ download' = download]_vars

\* an open returned Ok with the entry it admitted for the document
C29_Witness ==
    \E c \in Callers :
        /\ Returned(c, "open") /\ op[c].res = "ok"
        /\ Lookup(files, op[c].rid) = nent
        /\ state[nent].status = "Downloading" /\ state[nent].file_size = MaxSize
        /\ download[nent].pc = "run"

\* caller c begins an operation of this kind on rid in this step
Begins(c, kind, rid) ==
    /\ op[c].pc = "idle" /\ op'[c].pc # "idle"
    /\ op'[c].kind = kind /\ op'[c].rid = rid

\* C30: a delete first drops rid from the table, leaving the remote as it is,
\* and then returns Ok whether or not delete_messages succeeded; a flush or a
\* write that begins while the table does not hold rid returns NotFound and
\* changes nothing; and a rid the table does not hold comes back only by the
\* alloc of an open or of a truncate.
C30_DeleteDropsEntryFirst ==
    [][\A c \in Callers : \A rid \in Rids :
         /\ Begins(c, "delete", rid)
               => /\ Lookup(files', rid) = 0
                  /\ remote' = remote /\ state' = state
                  /\ op'[c].pc = "delete_messages"
         /\ (op[c].kind = "delete" /\ op[c].pc = "delete_messages" /\ op'[c].pc # op[c].pc)
               => /\ op'[c].pc = "done" /\ op'[c].res = "ok"
                  /\ files' = files
         /\ ( /\ Begins(c, "flush", rid) \/ Begins(c, "write", rid)
              /\ Lookup(files, rid) = 0 )
               => /\ op'[c].pc = "done" /\ op'[c].res = "NotFound"
                  /\ files' = files /\ state' = state /\ upload' = upload
         /\ (Lookup(files, rid) = 0 /\ Lookup(files', rid) # 0)
               => \E d \in Callers :
                     /\ op[d].kind \in {"open", "truncate"} /\ op[d].rid = rid
                     /\ op[d].pc \in {"fetch", "insert_empty"}
                     /\ op'[d].pc # op[d].pc]_vars

\* a delete returned Ok although delete_messages failed: the message is still
\* there, the entry is out of the table
C30_Witness ==
    \E c \in Callers :
        /\ Returned(c, "delete") /\ op[c].res = "ok"
        /\ remote[op[c].rid].kind = "document"
        /\ Lookup(files, op[c].rid) = 0
        /\ \E e \in Ents : state[e].remote_id = op[c].rid /\ state[e].status # "None"

-----------------------------------------------------------------------------
(* The table alone: many rids, a small capacity *)

TableRids == 1..MaxRids

\* the call the table served last
Served1(kind, rid) == [op EXCEPT ![1] = [Idle EXCEPT !.kind = kind, !.rid = rid]]

InitTable ==
    /\ files = <<>>
    /\ state = [e \in Ents |-> NoState]
    /\ download = [e \in Ents |-> NoDownload]
    /\ upload = [t \in Epochs |-> NoUpload]
    /\ op = [c \in Callers |-> Idle]
    /\ remote = [rid \in Rids |-> Placeholder]
    /\ now = 0
    /\ nent = 0
    /\ nops = 0
    /\ nfaults = 0
    /\ panicked = "none"
    /\ truncated = [rid \in Rids |-> -1]
    /\ fsynced = [rid \in Rids |-> -1]
    /\ plan = <<>>
    /\ node = [rid \in Rids |-> Stored(remote[rid])]

\* DiskCache::get
TableGet(rid) ==
    /\ files' = GetMut(files, rid)
    /\ op' = Served1("get", rid)
    /\ UNCHANGED <<state, download, upload, remote, now, nent, nops, nfaults, panicked,
                   truncated, fsynced, plan, node>>

\* DiskCache::remove
TableRemove(rid) ==
    /\ files' = Pop(files, rid)
    /\ op' = Served1("remove", rid)
    /\ UNCHANGED <<state, download, upload, remote, now, nent, nops, nfaults, panicked,
                   truncated, fsynced, plan, node>>

\* the table section of try_alloc_and_fetch: a hit is returned, else a new
\* entry is put
TableFetch(rid) ==
    /\ IF Lookup(files, rid) # 0
       THEN files' = GetMut(files, rid) /\ UNCHANGED nent
       ELSE /\ nent < MaxEnt
            /\ nent' = nent + 1
            /\ files' = PutWithin(files, rid, nent + 1, TableCap)
    /\ op' = Served1("fetch", rid)
    /\ UNCHANGED <<state, download, upload, remote, now, nops, nfaults, panicked,
                   truncated, fsynced, plan, node>>

\* the table section of insert_empty: a new entry is put, whatever was there
TableInsertEmpty(rid) ==
    /\ nent < MaxEnt
    /\ nent' = nent + 1
    /\ files' = PutWithin(files, rid, nent + 1, TableCap)
    /\ op' = Served1("insert_empty", rid)
    /\ UNCHANGED <<state, download, upload, remote, now, nops, nfaults, panicked,
                   truncated, fsynced, plan, node>>

NextTable ==
    \/ \E rid \in TableRids : TableGet(rid)
    \/ \E rid \in TableRids : TableRemove(rid)
    \/ \E rid \in TableRids : TableFetch(rid)
    \/ \E rid \in TableRids : TableInsertEmpty(rid)

SpecTable == InitTable /\ [][NextTable]_vars

Keys(fs) == {fs[i].k : i \in 1..Len(fs)}

\* C31: the table never holds more entries than its capacity nor two entries
\* of one rid; a get that hits, and every insertion, makes the rid the most
\* recently used and leaves the order of the others as it was; an insertion
\* of a new rid into a full table drops exactly the least recently used rid,
\* and no other step but a remove drops anything.
C31_TableIsBoundedLru ==
    /\ [](/\ Len(files) <= TableCap
          /\ \A i, j \in 1..Len(files) : i # j => files[i].k # files[j].k)
    /\ [][LET rid == op'[1].rid
              kind == op'[1].kind
              old == Keys(files)
              new == Keys(files')
          IN  /\ (kind = "get" /\ rid \in old)
                    => files'[Len(files')].k = rid /\ new = old
              /\ kind \in {"fetch", "insert_empty"}
                    => /\ files'[Len(files')].k = rid
                       /\ IF rid \notin old /\ Len(files) = TableCap
                          THEN new = (old \ {files[1].k}) \cup {rid}
                          ELSE new = old \cup {rid}
              /\ kind = "remove" => new = old \ {rid}
              /\ \A a, b \in (old \cap new) \ {rid} :
                    Index(files, a) < Index(files, b) => Index(files', a) < Index(files', b)
              /\ \A a \in (old \cap new) \ {rid} : Lookup(files', a) = Lookup(files, a)]_vars

\* a full table took a new rid and dropped a rid that had been inserted after
\* the one it kept: the kept one was touched since
C31_Witness ==
    /\ Len(files) = TableCap
    /\ op[1].kind \in {"fetch", "insert_empty"}
    /\ files[Len(files)].v = MaxEnt
    /\ files[1].v = 1

-----------------------------------------------------------------------------
(* An entry dropped from the table while its upload is in flight, on a remote
   that does not fail *)

\* open, write len bytes at 0, flush without waiting, drop the entry
EvictPlans ==
    { << Step("open", 0, 0, FALSE), Step("write", 0, len, FALSE),
         Step("flush", 0, 0, FALSE), Step("remove", 0, 0, FALSE) >> :
        len \in 1..MaxSize }

InitEvict ==
    /\ files = <<>>
    /\ state = [e \in Ents |-> NoState]
    /\ download = [e \in Ents |-> NoDownload]
    /\ upload = [t \in Epochs |-> NoUpload]
    /\ op = [c \in Callers |-> Idle]
    /\ remote \in [Rids -> {Placeholder, Document(InitialData)}]
    /\ now = 0
    /\ nent = 0
    /\ nops = 0
    /\ nfaults = MaxFaults
    /\ panicked = "none"
    /\ truncated = [rid \in Rids |-> -1]
    /\ fsynced = [rid \in Rids |-> -1]
    /\ plan \in EvictPlans
    /\ node = [rid \in Rids |-> Stored(remote[rid])]

EvictSteps ==
    \/ \E c \in Callers, rid \in Rids : OpenBegin(c, rid)
    \/ \E c \in Callers : AllocMessages(c)
    \/ \E c \in Callers : TryAllocAndFetch(c)
    \/ \E c \in Callers : InsertEmpty(c)
    \/ \E c \in Callers, rid \in Rids, len \in 1..MaxSize : WriteBegin(c, rid, 0, len)
    \/ \E c \in Callers : WriteLock(c)
    \/ \E c \in Callers : WriteRelock(c)
    \/ \E c \in Callers, rid \in Rids : FlushBegin(c, rid, FALSE)
    \/ \E c \in Callers : FlushLock(c)
    \/ \E c \in Callers, rid \in Rids : RemoveBegin(c, rid)
    \/ \E c \in Callers : Return(c)

NextEvict == DownloadSteps \/ UploadSteps \/ EvictSteps

SpecEvict ==
    /\ InitEvict /\ [][NextEvict]_vars
    /\ WF_vars(DownloadSteps) /\ WF_vars(UploadSteps) /\ WF_vars(EvictSteps)

\* the task spawned at Instant t has not issued its edit_message yet, and the
\* table no longer holds its entry
Evicted(t) ==
    /\ upload[t].kind = "upload"
    /\ upload[t].pc \in {"check1", "check2", "edit"}
    /\ Lookup(files, state[upload[t].ent].remote_id) # upload[t].ent

\* C32: dropping an entry from the table changes neither the entry nor its
\* upload task, and the task of a dropped entry goes on to issue its
\* edit_message with the entry's content and to finish, when the remote does
\* not fail.
C32_EvictedUploadCompletes ==
    /\ [][\A rid \in Rids :
            (Lookup(files, rid) # 0 /\ Lookup(files', rid) = 0)
                => upload' = upload /\ state' = state]_vars
    /\ \A t \in Epochs :
          Evicted(t) ~> /\ upload[t].sent /\ upload[t].pc = "done"
                        /\ remote[state[upload[t].ent].remote_id]
                              = Document(Payload(Content(upload[t].ent)))

\* the entry was dropped before its task took its first lock
C32_Witness ==
    \E t \in Epochs : Evicted(t) /\ upload[t].pc = "check1"

-----------------------------------------------------------------------------
(* Error::into_c_err, applied by every reply of the FUSE layer *)

\* the codes of libc the mapping names
EPERM == 1
ENOENT == 2
EIO == 5
EEXIST == 17
ENOTDIR == 20
EISDIR == 21
ENOTEMPTY == 39

\* fuser::FileType
FileTypes ==
    {"NamedPipe", "CharDevice", "BlockDevice", "Directory", "RegularFile", "Symlink",
     "Socket"}

\* the values of enum Error, the wrapped errors by two of their values
Errors ==
    [kind : {"NotFound", "NotADirectory", "IsADirectory", "DirectoryNotEmpty",
             "FileExists", "Invalidated", "DownloadFailed", "MediaInvalid"},
     arg : {"none"}]
    \cup [kind : {"Sql"}, arg : {"RowNotFound", "PoolClosed"}]
    \cup [kind : {"Grammers"}, arg : {"Rpc", "Dropped"}]
    \cup [kind : {"Io"}, arg : {"NotFound", "PermissionDenied"}]
    \cup [kind : {"InvalidFileType"}, arg : FileTypes]

\* a mapping that answers an invalidated handle as a missing object
IntoCErrInvalidatedAsNotFound(err) ==
    CASE err.kind \in {"NotFound", "Invalidated"} -> ENOENT
      [] err.kind = "NotADirectory" -> ENOTDIR
      [] err.kind = "IsADirectory" -> EISDIR
      [] err.kind = "DirectoryNotEmpty" -> ENOTEMPTY
      [] err.kind = "FileExists" -> EEXIST
      [] err.kind \in {"Sql", "Grammers", "DownloadFailed", "MediaInvalid", "Io"} -> EIO
      [] err.kind = "InvalidFileType" -> EPERM

\* the match of into_c_err, arm by arm
IntoCErr(err) ==
    CASE err.kind = "NotFound" -> ENOENT
      [] err.kind = "NotADirectory" -> ENOTDIR
      [] err.kind = "IsADirectory" -> EISDIR
      [] err.kind = "DirectoryNotEmpty" -> ENOTEMPTY
      [] err.kind = "FileExists" -> EEXIST
      [] err.kind = "Invalidated" -> EPERM
      [] err.kind = "Sql" -> EIO
      [] err.kind = "Grammers" -> EIO
      [] err.kind \in {"DownloadFailed", "MediaInvalid"} -> EIO
      [] err.kind = "Io" -> EIO
      [] err.kind = "InvalidFileType" -> EPERM

\* Err(err) => reply.error(err.into_c_err())
ReplyError(c, err) ==
    /\ Free(c)
    /\ op' = [op EXCEPT ![c] =
                 [Finish(Start("reply", 0), err.kind) EXCEPT !.err = err,
                                                             !.errno = IntoCErr(err)]]
    /\ UNCHANGED <<files, state, download, upload, remote, now, nent, nops, nfaults,
                   panicked, truncated, fsynced, plan, node>>

NextErrors ==
    \/ \E c \in Callers, err \in Errors : ReplyError(c, err)
    \/ \E c \in Callers : Return(c)

SpecErrors == InitTable /\ [][NextErrors]_vars

\* the error caller c was answered with is of one of these kinds
Replied(c, kinds) ==
    op[c].kind = "reply" /\ op[c].pc = "done" /\ op[c].err.kind \in kinds

\* C33: a reply carries ENOENT for NotFound, ENOTDIR for NotADirectory, EISDIR
\* for IsADirectory, ENOTEMPTY for DirectoryNotEmpty, EEXIST for FileExists,
\* EPERM for Invalidated and for an unsupported file type, and EIO for
\* DownloadFailed, MediaInvalid and every sql, grammers and io error; the
\* codes of Invalidated and NotFound differ.
C33_IntoCErr ==
    /\ \A c \in Callers :
          /\ Replied(c, {"NotFound"}) => op[c].errno = 2
          /\ Replied(c, {"NotADirectory"}) => op[c].errno = 20
          /\ Replied(c, {"IsADirectory"}) => op[c].errno = 21
          /\ Replied(c, {"DirectoryNotEmpty"}) => op[c].errno = 39
          /\ Replied(c, {"FileExists"}) => op[c].errno = 17
          /\ Replied(c, {"Invalidated", "InvalidFileType"}) => op[c].errno = 1
          /\ Replied(c, {"DownloadFailed", "MediaInvalid", "Sql", "Grammers", "Io"})
                => op[c].errno = 5
    /\ \A c, d \in Callers :
          Replied(c, {"Invalidated"}) /\ Replied(d, {"NotFound"})
              => op[c].errno # op[d].errno

\* one caller was answered Invalidated while the other was answered NotFound
C33_Witness ==
    \E c, d \in Callers :
        /\ Replied(c, {"Invalidated"}) /\ op[c].errno = EPERM
        /\ Replied(d, {"NotFound"}) /\ op[d].errno = ENOENT

-----------------------------------------------------------------------------
(* The epoch of a Dirty entry *)

\* C34: lock_mtime is stamped only when an entry turns Dirty; while an entry
\* stays Dirty, a flush of it included, its lock_mtime stays what it was and
\* the upload task in flight stays the current one.
C34_DirtyKeepsEpoch ==
    [][\A e \in Ents :
          (state[e].status = "Dirty" /\ state'[e].status = "Dirty")
              => /\ state'[e].lock_mtime = state[e].lock_mtime
                 /\ \A t \in Epochs :
                       (upload[t].ent = e /\ IsUpToDate(t)) => IsUpToDate(t)']_vars

-----------------------------------------------------------------------------
(* The assertion of the upload task *)

\* C36: the file_size an upload task read at its first lock is the entry's
\* file_size when the task, still current, takes its second lock: the
\* assert_eq "Truncation restarts uploading" never fails.
C36_UploadAssertionHolds == panicked # "upload_assert"

-----------------------------------------------------------------------------
(* The unreachable!() arms *)

\* the download task of entry e has not returned
Downloads(e) == download[e].pc \in {"run", "final"}

\* C37: an entry that left Downloading never is Downloading again; while the
\* download task of an entry runs, the entry is Downloading or Invalidated;
\* and no unreachable!() arm of download, write, flush or upload is reached.
C37_UnreachableArms ==
    /\ [](/\ \A e \in Ents :
                Downloads(e) => state[e].status \in {"Downloading", "Invalidated"}
          /\ panicked \notin {"download_unreachable", "write_unreachable",
                               "flush_unreachable", "upload_unreachable"})
    /\ [][\A e \in Ents :
            state[e].status \notin {"None", "Downloading"}
                => state'[e].status # "Downloading"]_vars

\* a write that waited for the download took the guard again after an entry
\* was invalidated under its running download task
C37_Witness ==
    /\ \E c \in Callers : Returned(c, "write") /\ op[c].waited
    /\ \E e \in Ents : download[e].pc = "done" /\ state[e].status = "Invalidated"

-----------------------------------------------------------------------------
(* The round trip of a file emptied before its fsync *)

\* create, write len bytes at 0, truncate to 0, fsync, evict, reopen, read
ZeroRoundTrip(len) ==
    << Step("open", 0, 0, FALSE), Step("write", 0, len, FALSE),
       Step("truncate", 0, 0, FALSE), Step("flush", 0, 0, TRUE),
       Step("remove", 0, 0, FALSE), Step("open", 0, 0, FALSE),
       Step("read", 0, 1, FALSE) >>

InitZero ==
    /\ files = <<>>
    /\ state = [e \in Ents |-> NoState]
    /\ download = [e \in Ents |-> NoDownload]
    /\ upload = [t \in Epochs |-> NoUpload]
    /\ op = [c \in Callers |-> Idle]
    /\ remote = [rid \in Rids |-> Placeholder]
    /\ now = 0
    /\ nent = 0
    /\ nops = 0
    /\ nfaults = 0
    /\ panicked = "none"
    /\ truncated = [rid \in Rids |-> -1]
    /\ fsynced = [rid \in Rids |-> -1]
    /\ plan \in {ZeroRoundTrip(len) : len \in 1..MaxSize}
    /\ node = [rid \in Rids |-> Stored(remote[rid])]

NextZero ==
    \/ NextRoundTrip
    \/ \E c \in Callers, rid \in Rids : TruncateBegin(c, rid, 0)
    \/ \E c \in Callers : TruncateLock(c)

SpecZero == InitZero /\ [][NextZero]_vars

\* C38: after a write, a truncate to 0 and an fsync that the remote served
\* without failure, the entry the reopening makes after the eviction has
\* file_size 0, and the read of it returns no byte.
C38_EmptyRoundTrip ==
    \A c \in Callers :
        (nops >= 6 /\ nfaults = 0 /\ op[c].kind \in {"open", "read"}
            /\ op[c].pc = "done")
            => /\ op[c].res = "ok"
               /\ state[Lookup(files, op[c].rid)].file_size = 0
               /\ op[c].out = <<>>

-----------------------------------------------------------------------------
(* Concurrent opens of one rid *)

\* C39: a step of an open leaves the entry the table holds for its rid in
\* the table, sets no entry Invalidated, and starts a download task only when
\* no download task of that rid runs.
C39_ConcurrentOpensAdmitOne ==
    [][\A c \in Callers :
         Opens(c) =>
            \A e \in Ents :
               /\ Lookup(files, op[c].rid) = e => Lookup(files', op[c].rid) = e
               /\ state[e].status \notin {"None", "Invalidated"}
                     => state'[e].status # "Invalidated"
               /\ (download[e].pc = "none" /\ download'[e].pc = "run")
                     => \A d \in Ents \ {e} :
                           state[d].remote_id = op[c].rid => ~Downloads(d)]_vars

-----------------------------------------------------------------------------
(* Vfs::write_file: FileCache::write, then the row of the metadata store *)

\* the table holds the Ready entry of an empty file
InitAttr ==
    /\ files = <<[k |-> 1, v |-> 1]>>
    /\ state = [e \in Ents |-> IF e = 1 THEN Empty(1) ELSE NoState]
    /\ download = [e \in Ents |-> NoDownload]
    /\ upload = [t \in Epochs |-> NoUpload]
    /\ op = [c \in Callers |-> Idle]
    /\ remote = [rid \in Rids |-> Placeholder]
    /\ now = 0
    /\ nent = 1
    /\ nops = 0
    /\ nfaults = 0
    /\ panicked = "none"
    /\ truncated = [rid \in Rids |-> -1]
    /\ fsynced = [rid \in Rids |-> -1]
    /\ plan = <<>>
    /\ node = [rid \in Rids |-> 0]

\* FileCache::write as write_file calls it: its result is kept for the update
WriteFile(c) ==
    LET o == op[c]
        st == state[o.h] IN
    /\ Quiet
    /\ o.kind = "write" /\ o.pc = "lock"
    /\ IF st.status \in {"Ready", "Dirty"}
       THEN /\ st.status = "Ready" => CanStamp
            /\ state' = [state EXCEPT ![o.h] = Written(o)]
            /\ upload' = Channels(o.h)
            /\ now' = IF st.status = "Ready" THEN now + 1 ELSE now
            /\ op' = [op EXCEPT ![c] = [o EXCEPT !.pc = "update_inode_attr",
                                                 !.pre = st.status,
                                                 !.was = st.file_size,
                                                 !.new_size = Written(o).file_size]]
            /\ UNCHANGED panicked
       ELSE IF st.status \in {"Invalidated", "DownloadFailed"} THEN Refuse(c, st.status)
       ELSE /\ op' = [op EXCEPT ![c].pc = "wait", ![c].waited = TRUE]
            /\ UNCHANGED <<state, upload, now, panicked>>
    /\ UNCHANGED <<files, download, remote, nent, nops, nfaults, truncated, fsynced, plan, node>>

\* update_inode_attr: the UPDATE of the row, or the error of the store
UpdateInodeAttr(c) ==
    LET o == op[c] IN
    /\ Quiet
    /\ o.pc = "update_inode_attr"
    /\ \/ /\ node' = [node EXCEPT ![o.rid] = o.new_size]
          /\ op' = [op EXCEPT ![c] = Finish(o, "ok")]
          /\ UNCHANGED nfaults
       \/ /\ CanFail
          /\ nfaults' = nfaults + 1
          /\ op' = [op EXCEPT ![c] = Finish(o, "Sql")]
          /\ UNCHANGED node
    /\ UNCHANGED <<files, state, download, upload, remote, now, nent, nops, panicked,
                   truncated, fsynced, plan>>

NextAttr ==
    \/ \E c \in Callers, rid \in Rids, offset \in Offsets, len \in 1..MaxSize :
          WriteBegin(c, rid, offset, len)
    \/ \E c \in Callers : WriteFile(c)
    \/ \E c \in Callers : UpdateInodeAttr(c)
    \/ \E c \in Callers : Return(c)

SpecAttr == InitAttr /\ [][NextAttr]_vars

\* C40: once the writes of a file have all returned, with no error of the
\* metadata store, the size in the file's row is the file_size of its entry.
C40_StoreHoldsFileSize ==
    \A rid \in Rids :
        (nfaults = 0 /\ Lookup(files, rid) # 0 /\ \A c \in Callers : Free(c))
            => node[rid] = state[Lookup(files, rid)].file_size

-----------------------------------------------------------------------------
(* The table mutex and the entries' guards, taken one lock at a time *)

\* the steps through which a caller that locked the table at step pc holds it:
\* the block it was locked in
FilesScopeThroughInvalidate(pc) ==
    IF pc = "insert_empty" THEN {"insert_empty", "invalidate"} ELSE {pc}

FilesScope(pc) == {pc}

\* caller c holds the table mutex
MutexHeld(c) == op[c].mutex # "none" /\ op[c].pc \in FilesScope(op[c].mutex)

\* the entry whose guard caller c locks next (0: none): state.lock().await, in
\* write and flush after the wait for the end of the download
GuardPoint(c) ==
    LET o == op[c] IN
    IF o.pc = "invalidate" THEN o.old
    ELSE IF o.pc \in {"lock", "relock", "loop"} THEN o.h
    ELSE IF /\ \/ o.pc = "wait_download"
               \/ o.kind = "write" /\ o.pc = "wait"
            /\ TxClosed(o.h)
    THEN o.h
    ELSE 0

\* the entry whose guard caller c holds (0: none): from the lock to the end
\* of the step it was taken for
Holds(c) == IF op[c].guard = op[c].pc THEN GuardPoint(c) ELSE 0

\* the guard of entry e is held by a caller, by its download task or by one
\* of its upload tasks
GuardHeld(e) ==
    \/ \E c \in Callers : Holds(c) = e
    \/ Downloads(e) /\ download[e].guard = download[e].pos
    \/ \E t \in Epochs : /\ upload[t].kind = "upload" /\ upload[t].ent = e
                          /\ upload[t].guard = upload[t].pc

\* let mut files = self.files.lock().unwrap(), of insert_empty and of
\* try_alloc_and_fetch
LockFiles(c) ==
    /\ Quiet
    /\ op[c].pc \in {"insert_empty", "fetch"}
    /\ \A d \in Callers : ~MutexHeld(d)
    /\ op' = [op EXCEPT ![c].mutex = op[c].pc]
    /\ UNCHANGED <<files, state, download, upload, remote, now, nent, nops, nfaults,
                   panicked, truncated, fsynced, plan, node>>

\* what is done under the table mutex: the blocks of try_alloc_and_fetch and
\* of insert_empty, and the get or remove a call begins with, which locks
\* and unlocks in one expression
FilesSection(c) ==
    \/ /\ MutexHeld(c)
       /\ TryAllocAndFetch(c) \/ InsertEmpty(c)
    \/ /\ \A d \in Callers : ~MutexHeld(d)
       /\ \/ \E rid \in Rids, offset \in Offsets, size \in {1, Unbounded} :
                ReadBegin(c, rid, offset, size)
          \/ \E rid \in Rids, offset \in Offsets : WriteBegin(c, rid, offset, 1)
          \/ \E rid \in Rids : OpenBegin(c, rid)
          \/ \E rid \in Rids : RemoveBegin(c, rid)
          \/ \E rid \in Rids : DeleteBegin(c, rid)
          \/ \E rid \in Rids, new_size \in Sizes : TruncateBegin(c, rid, new_size)
          \/ \E rid \in Rids, block \in BOOLEAN : FlushBegin(c, rid, block)

\* state.lock().await of a caller
LockState(c) ==
    /\ Quiet
    /\ GuardPoint(c) # 0
    /\ Holds(c) = 0
    /\ ~GuardHeld(GuardPoint(c))
    /\ op' = [op EXCEPT ![c].guard = op[c].pc]
    /\ UNCHANGED <<files, state, download, upload, remote, now, nent, nops, nfaults,
                   panicked, truncated, fsynced, plan, node>>

\* what a caller does under a guard
StateSection(c) ==
    /\ Holds(c) # 0
    /\ \/ ReadLock(c) \/ ReadRelock(c)
       \/ WriteLock(c) \/ WriteRelock(c)
       \/ TruncateLock(c)
       \/ FlushLock(c) \/ FlushRelock(c) \/ FlushLoop(c)
       \/ Invalidate(c)

\* what a caller does holding nothing: the requests to the remote, the waits
\* on the channels, the return
Awaited(c) ==
    \/ AllocMessages(c) \/ DeleteMessages(c) \/ UploadEmptyFile(c)
    \/ ReadWake(c) \/ FlushWake(c)
    \/ Return(c)

\* this.state.lock().await of the download task, after iter.next().await
DownloadLock(e) ==
    /\ Quiet
    /\ Downloads(e)
    /\ ~GuardHeld(e)
    /\ download' = [download EXCEPT ![e].guard = download[e].pos]
    /\ UNCHANGED <<files, state, upload, op, remote, now, nent, nops, nfaults,
                   panicked, truncated, fsynced, plan, node>>

DownloadSection(e) ==
    /\ download[e].guard = download[e].pos
    /\ \/ DownloadError(e) \/ DownloadEnd(e) \/ DownloadFinal(e)
       \/ \E n \in 1..MaxChunk : DownloadChunk(e, n)

\* this.state.lock().await of an upload task
UploadLock(t) ==
    /\ Quiet
    /\ upload[t].kind = "upload" /\ upload[t].pc \in {"check1", "check2", "final"}
    /\ ~GuardHeld(upload[t].ent)
    /\ upload' = [upload EXCEPT ![t].guard = upload[t].pc]
    /\ UNCHANGED <<files, state, download, op, remote, now, nent, nops, nfaults,
                   panicked, truncated, fsynced, plan, node>>

UploadSection(t) ==
    /\ upload[t].guard = upload[t].pc
    /\ UploadCheck(t) \/ UploadRead(t) \/ UploadFinal(t)

NextLocks ==
    \/ \E c \in Callers : LockFiles(c)
    \/ \E c \in Callers : FilesSection(c)
    \/ \E c \in Callers : LockState(c)
    \/ \E c \in Callers : StateSection(c)
    \/ \E c \in Callers : Awaited(c)
    \/ \E e \in Ents : DownloadLock(e)
    \/ \E e \in Ents : DownloadSection(e)
    \/ \E t \in Epochs : UploadLock(t)
    \/ \E t \in Epochs : UploadSection(t)
    \/ \E t \in Epochs : UploadEdit(t)

SpecLocks == Init /\ [][NextLocks]_vars

\* a call or a task has not finished
Pending ==
    \/ \E c \in Callers : op[c].pc # "idle"
    \/ \E e \in Ents : Downloads(e)
    \/ \E t \in Epochs : /\ upload[t].kind = "upload"
                          /\ upload[t].pc \in {"check1", "check2", "edit", "final"}

\* the steps of caller c
Steps(c) ==
    LockFiles(c) \/ FilesSection(c) \/ LockState(c) \/ StateSection(c) \/ Awaited(c)

\* caller c waits for the guard of an entry that a caller or a task of that
\* entry holds, or on a channel of its entry whose sender is a running task of
\* that entry
WaitsOnItsEntry(c) ==
    LET o == op[c] IN
    \/ GuardPoint(c) # 0 /\ GuardHeld(GuardPoint(c))
    \/ o.pc \in {"wait", "wait_download"} /\ Downloads(o.h)
    \/ o.pc = "wait_done" /\ ~DoneClosed(o.rx) /\ upload[o.rx].ent = o.h

\* the counters leave room for the next step
Roomy == now < MaxEpoch /\ nent < MaxEnt

====
